---- MODULE Spec2Model ----
(***************************************************************************)
(* Calorie-goal engine, dual-backend goal store and goal-status            *)
(* classification of the meal-tracking application                          *)
(* (src/src/components/NutritionResults.tsx).                               *)
(*                                                                          *)
(* The application is a single-page application: the calculator page and   *)
(* the history page are never mounted together; both read and write the    *)
(* remote table calorie_goals and the localStorage list 'calorie_goals'.   *)
(*                                                                          *)
(* Conventions.  A nullable value (null, NaN, "no goal") is a sequence of  *)
(* length at most one: << >> is null/NaN, <<x>> is the value x.  Input     *)
(* texts are sequences of character codes ('' is << >>).  Calories are     *)
(* whole kilocalories; the other numbers of the engine are IEEE-754        *)
(* doubles, computed with the rounding of every operation.                  *)
(***************************************************************************)
EXTENDS Integers, Sequences, FiniteSets, TLC

VARIABLES
    now,            \* latest reading of Date.now() (milliseconds, abstracted)
    session,        \* supabase auth session present
    remote,         \* rows of the remote table calorie_goals (insertion order)
    local,          \* localStorage['calorie_goals'] parsed (a list of goals)
    page,           \* mounted route: "calculator" | "history" | "auth"
    toast,          \* toast raised by the last step ("none": it raised none)
    \* ---- CaloriesCalculatorPage state ----
    inputs, results, isCalculated, isSaving, savedGoal,
    calcReq,        \* goalData of the insert awaited by saveCalorieGoal
    \* ---- History state ----
    loading, calorieGoals, currentGoal,
    isEditingGoal, editedCalories, isSavingEdit,
    showCustomGoal, customCalories, isSavingCustomGoal,
    histReq,        \* request awaited by a History handler (closure values)
    updates,        \* number of update requests issued (bounded)
    event,          \* handler that ran to completion in the last step, with
                    \* the responses it received from the two stores
    reported,       \* ids of the goals whose save was reported successful
    \* ---- goal-status classification inputs (pure-function check) ----
    clsTotal, clsGoal, clsStatus,
    \* ---- meal history and period summary of History ----
    meals,          \* meals state: the rows of meal_analyses that were loaded
    sumStart, sumEnd,   \* startDate and endDate of the last calculateSummary
    summary,        \* value returned by the last calculateSummary
    \* ---- what SummaryCard rendered last ----
    bars,           \* macro progress rows of the card (Null: none rendered)
    periods,        \* daily, monthly and yearly summary of the last render
    \* ---- Index (the analyzer page) ----
    analyzer,       \* state of Index: selectedImage, isAnalyzing,
                    \* nutritionData, isSaving, savedToHistory
    awaited,        \* remote calls awaited by the handlers of Index
    mealStore       \* bucket meal-images and rows of the table meal_analyses

calcVars == <<inputs, results, isCalculated, isSaving, savedGoal, calcReq>>
histVars == <<loading, calorieGoals, currentGoal, isEditingGoal,
              editedCalories, isSavingEdit, showCustomGoal, customCalories,
              isSavingCustomGoal, histReq>>
sumVars  == <<meals, sumStart, sumEnd, summary>>
indexVars == <<analyzer, awaited, mealStore>>
viewVars == <<bars, periods, indexVars>>
clsVars  == <<clsTotal, clsGoal, clsStatus, sumVars, viewVars>>
storeVars == <<remote, local>>
vars     == <<now, session, remote, local, page, toast, calcVars, histVars,
              updates, event, reported, clsVars>>

----------------------------------------------------------------------------
(* Bounds of the model *)

MaxClock   == 2     \* number of Date.now() readings (goal saves)
MaxUpdates == 1     \* number of update requests issued from the history page
MaxCls     == 50    \* classification inputs are 0..MaxCls times 50 kcal

----------------------------------------------------------------------------
(* Nullable values *)

Null    == << >>
Some(x) == <<x>>
Val(o)  == o[1]

----------------------------------------------------------------------------
(* Number parsing and rounding *)

RECURSIVE DigitsValue(_)
DigitsValue(text) ==
    IF text = << >> THEN 0
    ELSE 10 * DigitsValue(SubSeq(text, 1, Len(text) - 1)) + text[Len(text)]

\* Number on a text of decimal digits; the handlers reject '' (here Null)
\* before they convert it
ParseNumber(text) == IF text = << >> THEN Null ELSE Some(DigitsValue(text))

\* the code's validity test of an entered calorie value:
\* !text || isNaN(Number(text)) || Number(text) <= 0
InvalidCalories(text) == text = << >> \/ DigitsValue(text) <= 0

----------------------------------------------------------------------------
(* IEEE-754 double arithmetic of the JavaScript numbers of the calorie     *)
(* engine.  A natural number is a little-endian sequence of limbs in base  *)
(* LimbBase without leading zero limbs (<< >> is 0); a double is a record  *)
(* [neg, man, exp] of value (-1)^neg * man * 2^exp whose mantissa man has  *)
(* at most 53 bits.  Every operation returns the exact result rounded to   *)
(* the nearest double, ties to even; the values of the engine are far      *)
(* from overflow and from the subnormal range.                             *)

LimbBase == 16384

RECURSIVE BigNorm(_)
BigNorm(a) ==
    IF a # << >> /\ a[Len(a)] = 0 THEN BigNorm(SubSeq(a, 1, Len(a) - 1)) ELSE a

RECURSIVE BigFromInt(_)
BigFromInt(n) ==
    IF n = 0 THEN << >> ELSE <<n % LimbBase>> \o BigFromInt(n \div LimbBase)

RECURSIVE BigToInt(_)
BigToInt(a) == IF a = << >> THEN 0 ELSE a[1] + LimbBase * BigToInt(Tail(a))

RECURSIVE BigAddC(_, _, _)
BigAddC(a, b, c) ==
    IF a = << >> /\ b = << >> THEN (IF c = 0 THEN << >> ELSE <<c>>)
    ELSE LET x == (IF a = << >> THEN 0 ELSE a[1])
                  + (IF b = << >> THEN 0 ELSE b[1]) + c
         IN  <<x % LimbBase>>
             \o BigAddC(IF a = << >> THEN << >> ELSE Tail(a),
                        IF b = << >> THEN << >> ELSE Tail(b), x \div LimbBase)

BigAdd(a, b) == BigAddC(a, b, 0)

RECURSIVE BigSubB(_, _, _)
BigSubB(a, b, c) ==
    IF a = << >> THEN << >>
    ELSE LET x == a[1] - (IF b = << >> THEN 0 ELSE b[1]) - c
         IN  <<IF x < 0 THEN x + LimbBase ELSE x>>
             \o BigSubB(Tail(a), IF b = << >> THEN << >> ELSE Tail(b),
                        IF x < 0 THEN 1 ELSE 0)

\* a - b for a >= b
BigSub(a, b) == BigNorm(BigSubB(a, b, 0))

\* -1, 0, 1 as a < b, a = b, a > b
RECURSIVE BigCmp(_, _)
BigCmp(a, b) ==
    IF Len(a) # Len(b) THEN (IF Len(a) < Len(b) THEN -1 ELSE 1)
    ELSE IF a = << >> THEN 0
    ELSE IF a[Len(a)] # b[Len(b)]
         THEN (IF a[Len(a)] < b[Len(b)] THEN -1 ELSE 1)
    ELSE BigCmp(SubSeq(a, 1, Len(a) - 1), SubSeq(b, 1, Len(b) - 1))

\* a * k + c for 0 <= k, c < LimbBase
RECURSIVE BigMulSmallC(_, _, _)
BigMulSmallC(a, k, c) ==
    IF a = << >> THEN (IF c = 0 THEN << >> ELSE <<c>>)
    ELSE LET x == a[1] * k + c
         IN  <<x % LimbBase>> \o BigMulSmallC(Tail(a), k, x \div LimbBase)

RECURSIVE BigMul(_, _)
BigMul(a, b) ==
    IF a = << >> \/ b = << >> THEN << >>
    ELSE BigNorm(BigAdd(BigMulSmallC(a, b[1], 0), <<0>> \o BigMul(a, Tail(b))))

\* quotient and remainder of a by d, 0 < d <= LimbBase
RECURSIVE BigDivSmall(_, _)
BigDivSmall(a, d) ==
    IF a = << >> THEN [q |-> << >>, r |-> 0]
    ELSE LET hi == BigDivSmall(Tail(a), d)
             x  == hi.r * LimbBase + a[1]
         IN  [q |-> <<x \div d>> \o hi.q, r |-> x % d]

RECURSIVE Zeros(_)
Zeros(n) == IF n = 0 THEN << >> ELSE <<0>> \o Zeros(n - 1)

\* a * 2^n and floor(a / 2^n)
BigShl(a, n) ==
    IF a = << >> THEN << >>
    ELSE Zeros(n \div 14) \o BigMulSmallC(a, 2 ^ (n % 14), 0)

BigShr(a, n) ==
    IF n \div 14 >= Len(a) THEN << >>
    ELSE BigNorm(BigDivSmall(SubSeq(a, n \div 14 + 1, Len(a)), 2 ^ (n % 14)).q)

RECURSIVE SmallBitLen(_)
SmallBitLen(n) == IF n = 0 THEN 0 ELSE 1 + SmallBitLen(n \div 2)

BitLen(a) ==
    IF a = << >> THEN 0 ELSE 14 * (Len(a) - 1) + SmallBitLen(a[Len(a)])

\* -1, 0, 1 as the low n bits of a are below, at or above one half of 2^n
HalfCmp(a, n) ==
    BigCmp(BigSub(a, BigShl(BigShr(a, n), n)), BigShl(<<1>>, n - 1))

\* (-1)^neg * big * 2^exp rounded to the nearest double, ties to even
RoundToDouble(neg, big, exp) ==
    IF BitLen(big) <= 53 THEN [neg |-> neg, man |-> big, exp |-> exp]
    ELSE LET s  == BitLen(big) - 53
             q  == BigShr(big, s)
             c  == HalfCmp(big, s)
             up == c > 0 \/ (c = 0 /\ q[1] % 2 = 1)
         IN  [neg |-> neg, man |-> IF up THEN BigAdd(q, <<1>>) ELSE q,
              exp |-> exp + s]

DoubleFromInt(n) ==
    [neg |-> n < 0, man |-> BigFromInt(IF n < 0 THEN -n ELSE n), exp |-> 0]

\* floor(a / 10^d) with bit 0 of the result doubled as a sticky bit:
\* 2 * floor(a / 10^d) + (1 if the division left a remainder)
RECURSIVE BigDivPow10(_, _, _)
BigDivPow10(a, d, sticky) ==
    IF d = 0 THEN BigAdd(BigShl(a, 1), IF sticky THEN <<1>> ELSE << >>)
    ELSE LET dv == BigDivSmall(a, 10)
         IN  BigDivPow10(BigNorm(dv.q), d - 1, sticky \/ dv.r # 0)

\* the double nearest to the decimal n / 10^d (n >= 0): a numeric literal
\* of the source, or the result of parseFloat
DoubleFromDecimal(n, d) ==
    IF d = 0 THEN DoubleFromInt(n)
    ELSE RoundToDouble(FALSE, BigDivPow10(BigShl(BigFromInt(n), 84), d, FALSE),
                       -85)

DoubleNeg(a) == [a EXCEPT !.neg = ~a.neg]

\* a + b and a * b without rounding (the mantissa may exceed 53 bits)
ExactAdd(a, b) ==
    LET e == IF a.exp < b.exp THEN a.exp ELSE b.exp
        A == BigShl(a.man, a.exp - e)
        B == BigShl(b.man, b.exp - e)
        c == BigCmp(A, B)
    IN  IF a.neg = b.neg THEN [neg |-> a.neg, man |-> BigAdd(A, B), exp |-> e]
        ELSE IF c = 0 THEN [neg |-> FALSE, man |-> << >>, exp |-> 0]
        ELSE IF c > 0 THEN [neg |-> a.neg, man |-> BigSub(A, B), exp |-> e]
        ELSE [neg |-> b.neg, man |-> BigSub(B, A), exp |-> e]

ExactMul(a, b) ==
    [neg |-> a.neg # b.neg, man |-> BigMul(a.man, b.man), exp |-> a.exp + b.exp]

\* the double nearest to an exact result
Rounded(a) == RoundToDouble(a.neg, a.man, a.exp)

\* the operators + - * of the language
DoubleAdd(a, b) == Rounded(ExactAdd(a, b))

DoubleSub(a, b) == DoubleAdd(a, DoubleNeg(b))

DoubleMul(a, b) == Rounded(ExactMul(a, b))

\* the largest digit d in lo..hi with b * d <= x
RECURSIVE QuotDigit(_, _, _, _)
QuotDigit(x, b, lo, hi) ==
    IF lo = hi THEN lo
    ELSE LET mid == (lo + hi + 1) \div 2
         IN  IF BigCmp(BigNorm(BigMulSmallC(b, mid, 0)), x) <= 0
             THEN QuotDigit(x, b, mid, hi)
             ELSE QuotDigit(x, b, lo, mid - 1)

\* floor(a / b) and a mod b (b > 0), by long division over the limbs of a
RECURSIVE BigDivMod(_, _)
BigDivMod(a, b) ==
    IF a = << >> THEN [q |-> << >>, r |-> << >>]
    ELSE LET hi == BigDivMod(Tail(a), b)
             x  == BigNorm(<<a[1]>> \o hi.r)
             d  == QuotDigit(x, b, 0, LimbBase - 1)
         IN  [q |-> BigNorm(<<d>> \o hi.q),
              r |-> BigSub(x, BigNorm(BigMulSmallC(b, d, 0)))]

\* the operator / of the language (b # 0): the quotient of the mantissas
\* to at least 55 bits, with a sticky bit for the remainder, rounded
DoubleDiv(a, b) ==
    IF a.man = << >> THEN [neg |-> FALSE, man |-> << >>, exp |-> 0]
    ELSE LET d == 55 + BitLen(b.man) - BitLen(a.man)
             k == IF d > 0 THEN d ELSE 0
             dv == BigDivMod(BigShl(a.man, k), b.man)
             big == BigAdd(BigShl(dv.q, 1),
                           IF dv.r = << >> THEN << >> ELSE <<1>>)
         IN  RoundToDouble(a.neg # b.neg, big, a.exp - b.exp - k - 1)

\* -1, 0, 1 as a < b, a = b, a > b
DoubleCmp(a, b) ==
    LET d == ExactAdd(a, DoubleNeg(b))
    IN  IF d.man = << >> THEN 0 ELSE IF d.neg THEN -1 ELSE 1

\* Math.round: the integer floor(a + 1/2), computed exactly
MathRound(a) ==
    IF a.exp >= 0
    THEN (IF a.neg THEN -1 ELSE 1) * BigToInt(BigShl(a.man, a.exp))
    ELSE LET q == BigToInt(BigShr(a.man, -a.exp))
             c == HalfCmp(a.man, -a.exp)
         IN  IF a.neg THEN -q - (IF c > 0 THEN 1 ELSE 0)
             ELSE q + (IF c >= 0 THEN 1 ELSE 0)

----------------------------------------------------------------------------
(* Number parsing of the form texts.  A text is a sequence of character   *)
(* codes: 0..9 are the decimal digits, Dot is '.' and Minus is '-'.  The   *)
(* fields are <input type="number">: their value is '' or a number.        *)

Dot   == 10
Minus == 11

\* number of leading decimal digits of a text
RECURSIVE LeadingDigits(_)
LeadingDigits(text) ==
    IF text # << >> /\ text[1] \in 0..9
    THEN 1 + LeadingDigits(Tail(text)) ELSE 0

Unsigned(text) ==
    IF text # << >> /\ text[1] = Minus THEN Tail(text) ELSE text

\* parseInt: the longest prefix [-]digits, NaN when there is none
ParseInt(text) ==
    LET k == LeadingDigits(Unsigned(text))
        n == DigitsValue(SubSeq(Unsigned(text), 1, k))
    IN  IF k = 0 THEN Null
        ELSE Some(IF Unsigned(text) # text THEN -n ELSE n)

\* parseFloat: the double nearest to the longest prefix [-]digits[.digits],
\* NaN when that prefix has no digit
ParseFloat(text) ==
    LET u    == Unsigned(text)
        k    == LeadingDigits(u)
        frac == IF Len(u) > k /\ u[k + 1] = Dot
                THEN SubSeq(u, k + 2, Len(u)) ELSE << >>
        d    == LeadingDigits(frac)
        n    == DigitsValue(SubSeq(u, 1, k) \o SubSeq(frac, 1, d))
    IN  IF k + d = 0 THEN Null
        ELSE Some([DoubleFromDecimal(n, d) EXCEPT !.neg = (u # text)])

----------------------------------------------------------------------------
(* Calorie engine *)

\* activityLevels: value text -> multiplier (parseFloat of the value)
activityLevels ==
    [x \in {"1.2", "1.375", "1.55", "1.725", "1.9"} |->
        CASE x = "1.2"   -> DoubleFromDecimal(12, 1)
          [] x = "1.375" -> DoubleFromDecimal(1375, 3)
          [] x = "1.55"  -> DoubleFromDecimal(155, 2)
          [] x = "1.725" -> DoubleFromDecimal(1725, 3)
          [] x = "1.9"   -> DoubleFromDecimal(19, 1)]

\* the numeric literals 0.453592 (pounds to kg), 2.54 (inches to cm) and
\* 6.25 (height coefficient of the Mifflin-St Jeor equation)
PoundsToKgShort == DoubleFromDecimal(4536, 4)
PoundsToKg  == DoubleFromDecimal(453592, 6)
InchesToCm  == DoubleFromDecimal(254, 2)
HeightCoeffShort == DoubleFromDecimal(62, 1)
HeightCoeff == DoubleFromDecimal(625, 2)

\* let weightKg = weight; if (inputs.unit === 'imperial') weightKg = ...
weightKg(weight, unit) ==
    IF unit = "imperial" THEN DoubleMul(weight, PoundsToKg) ELSE weight

\* let heightCm = height; if (inputs.unit === 'imperial') heightCm = ...
heightCm(height, unit) ==
    IF unit = "imperial" THEN DoubleMul(height, InchesToCm) ELSE height

\* calculateBMR (Mifflin-St Jeor), evaluated left to right
calculateBMRRounded(age, weight, height, gender) ==
    LET base == DoubleSub(DoubleAdd(DoubleMul(DoubleFromInt(10), weight),
                                    DoubleMul(HeightCoeff, height)),
                          DoubleMul(DoubleFromInt(5), age))
    IN  DoubleFromInt(MathRound(IF gender = "male"
                                THEN DoubleAdd(base, DoubleFromInt(5))
                                ELSE DoubleSub(base, DoubleFromInt(161))))

calculateBMRAgeAdded(age, weight, height, gender) ==
    LET base == DoubleAdd(DoubleAdd(DoubleMul(DoubleFromInt(10), weight),
                                    DoubleMul(HeightCoeff, height)),
                          DoubleMul(DoubleFromInt(5), age))
    IN  IF gender = "male"
        THEN DoubleAdd(base, DoubleFromInt(5))
        ELSE DoubleSub(base, DoubleFromInt(161))

calculateBMR(age, weight, height, gender) ==
    LET base == DoubleSub(DoubleAdd(DoubleMul(DoubleFromInt(10), weight),
                                    DoubleMul(HeightCoeff, height)),
                          DoubleMul(DoubleFromInt(5), age))
    IN  IF gender = "male"
        THEN DoubleAdd(base, DoubleFromInt(5))
        ELSE DoubleSub(base, DoubleFromInt(161))

\* the engine on parsed numbers: unit conversion, BMR, TDEE and the object
\* passed to setResults
Engine(age, weight, height, gender, activityMultiplier, unit) ==
    LET bmr  == calculateBMR(age, weightKg(weight, unit),
                             heightCm(height, unit), gender)
        tdee == DoubleMul(bmr, activityMultiplier)
    IN  [bmr         |-> MathRound(bmr),
         tdee        |-> MathRound(tdee),
         maintenance |-> MathRound(tdee),
         weightLoss  |-> MathRound(DoubleSub(tdee, DoubleFromInt(500))),
         weightGain  |-> MathRound(DoubleAdd(tdee, DoubleFromInt(500)))]

\* calculateCalories past its validation, on the texts of the form
ComputeResults(inp) ==
    Engine(DoubleFromInt(Val(ParseInt(inp.age))), Val(ParseFloat(inp.weight)),
           Val(ParseFloat(inp.height)), inp.gender,
           activityLevels[inp.activityLevel], inp.unit)

\* !age || !weight || !height || age < 1 || weight < 1 || height < 1
InvalidInputsFalsy(inp) ==
    \/ ParseInt(inp.age) = Null
    \/ Val(ParseInt(inp.age)) = 0
    \/ \E f \in {"weight", "height"} :
          \/ ParseFloat(inp[f]) = Null
          \/ Val(ParseFloat(inp[f])).man = << >>

InvalidInputs(inp) ==
    \/ ParseInt(inp.age) = Null
    \/ Val(ParseInt(inp.age)) < 1
    \/ \E f \in {"weight", "height"} :
          \/ ParseFloat(inp[f]) = Null
          \/ DoubleCmp(Val(ParseFloat(inp[f])), DoubleFromInt(1)) < 0

----------------------------------------------------------------------------
(* Goal records and the two stores *)

\* Number.prototype.toString on a positive whole number
RECURSIVE ToDigits(_)
ToDigits(n) == IF n < 10 THEN <<n>> ELSE Append(ToDigits(n \div 10), n % 10)

\* data[0].id && data[0].maintenance_calories > 0
IsValidGoal(g) == g.id # << >> /\ g.maintenance_calories > 0

\* Array.prototype.sort with (a, b) => time(b.created_at) - time(a.created_at)
\* (stable), and ORDER BY created_at DESC of the remote read
RECURSIVE SortDesc(_)
SortDesc(goals) ==
    IF goals = << >> THEN << >>
    ELSE LET rest == SortDesc(SubSeq(goals, 1, Len(goals) - 1))
             g    == goals[Len(goals)]
             k    == Cardinality({i \in 1..Len(rest) :
                                     rest[i].created_at >= g.created_at})
         IN  SubSeq(rest, 1, k) \o <<g>> \o SubSeq(rest, k + 1, Len(rest))

Ids(goals) == {goals[i].id : i \in 1..Len(goals)}

\* localGoals.map(goal => goal.id === id ? updatedGoal : goal)
ReplaceById(goals, id, updatedGoal) ==
    [i \in 1..Len(goals) |-> IF goals[i].id = id THEN updatedGoal ELSE goals[i]]

\* goalData built by saveCalorieGoal
CalcGoalData(t, goalType) ==
    [id                   |-> <<"goal", t>>,
     user_id              |-> "user",
     bmr                  |-> Val(results).bmr,
     tdee                 |-> Val(results).tdee,
     maintenance_calories |-> Val(results).maintenance,
     weight_loss_calories |-> Val(results).weightLoss,
     weight_gain_calories |-> Val(results).weightGain,
     age                  |-> ParseInt(inputs.age),
     weight               |-> ParseFloat(inputs.weight),
     height               |-> ParseFloat(inputs.height),
     gender               |-> inputs.gender,
     activity_level       |-> inputs.activityLevel,
     unit_system          |-> inputs.unit,
     goal_type            |-> goalType,
     protein_goal         |-> Null,
     carbs_goal           |-> Null,
     fat_goal             |-> Null,
     created_at           |-> t]

\* goalData built by saveCustomCalorieGoal
CustomGoalData(t, calories) ==
    [id                   |-> <<"custom_goal", t>>,
     user_id              |-> "user",
     bmr                  |-> 0,
     tdee                 |-> 0,
     maintenance_calories |-> calories,
     weight_loss_calories |-> calories,
     weight_gain_calories |-> calories,
     age                  |-> Some(0),
     weight               |-> Some(DoubleFromInt(0)),
     height               |-> Some(DoubleFromInt(0)),
     gender               |-> "custom",
     activity_level       |-> "0",
     unit_system          |-> "custom",
     goal_type            |-> "custom",
     protein_goal         |-> Null,
     carbs_goal           |-> Null,
     fat_goal             |-> Null,
     created_at           |-> t]

CalorieEditAll(g, calories) ==
    [g EXCEPT !.maintenance_calories = calories,
              !.weight_loss_calories = calories,
              !.weight_gain_calories = calories,
              !.goal_type            = "custom"]

\* the fields written by the calorie edit (remote update payload, and the
\* fields overridden in updatedGoal)
CalorieEdit(g, calories) ==
    [g EXCEPT !.weight_loss_calories = calories,
              !.weight_gain_calories = calories,
              !.goal_type            = "custom"]

\* the fields written by Save Goals, taken from the current goal cg
MacroEdit(g, cg) ==
    [g EXCEPT !.protein_goal = cg.protein_goal,
              !.carbs_goal   = cg.carbs_goal,
              !.fat_goal     = cg.fat_goal]

\* .update({weight_loss_calories, weight_gain_calories, goal_type}).eq('id', id)
UpdateCaloriesById(rows, id, calories) ==
    [i \in 1..Len(rows) |->
        IF rows[i].id = id THEN CalorieEdit(rows[i], calories) ELSE rows[i]]

\* .update({protein_goal, carbs_goal, fat_goal}).eq('id', id), and the map
\* of the Save Goals fallback
UpdateMacrosById(rows, id, cg) ==
    [i \in 1..Len(rows) |->
        IF rows[i].id = id THEN MacroEdit(rows[i], cg) ELSE rows[i]]

----------------------------------------------------------------------------
(* Summary annotation and goal-status classification *)

GoalCaloriesMaintenance(g) ==
    IF g.goal_type = "weight_loss" THEN g.weight_loss_calories
    ELSE IF g.goal_type = "weight_gain" THEN g.weight_gain_calories
    ELSE g.maintenance_calories

\* goalCalories of calculateSummary
GoalCalories(g) ==
    IF g.goal_type = "maintenance" THEN g.maintenance_calories
    ELSE IF g.goal_type = "weight_loss" THEN g.weight_loss_calories
    ELSE g.weight_gain_calories

GoalStatusUnderInclusive(totalCalories, goalCalories) ==
    IF 10 * totalCalories <= 9 * goalCalories THEN "under"
    ELSE IF 10 * totalCalories > 11 * goalCalories THEN "over"
    ELSE "met"

GoalStatusOverInclusive(totalCalories, goalCalories) ==
    IF 10 * totalCalories < 9 * goalCalories THEN "under"
    ELSE IF 10 * totalCalories >= 11 * goalCalories THEN "over"
    ELSE "met"

\* goalStatus of calculateSummary: total < goal * 0.9, total > goal * 1.1
GoalStatus(totalCalories, goalCalories) ==
    IF 10 * totalCalories < 9 * goalCalories THEN "under"
    ELSE IF 10 * totalCalories > 11 * goalCalories THEN "over"
    ELSE "met"

----------------------------------------------------------------------------
(* Period summaries of the meal history.  Dates are instants (integers);   *)
(* the nutrition columns hold numbers, on which Number is the identity.    *)

\* mealDate >= startDate && mealDate <= endDate
InWindowExclusive(meal, startDate, endDate) ==
    meal.analyzed_at >= startDate /\ meal.analyzed_at < endDate

InWindow(meal, startDate, endDate) ==
    meal.analyzed_at >= startDate /\ meal.analyzed_at <= endDate

\* meals.filter(...)
filteredMeals(ms, startDate, endDate) ==
    SelectSeq(ms, LAMBDA meal : InWindow(meal, startDate, endDate))

\* filteredMeals.reduce(..., {totalCalories: 0, ..., mealCount: 0})
RECURSIVE ReduceTotals(_)
ReduceTotals(ms) ==
    IF ms = << >>
    THEN [totalCalories |-> 0, totalProtein |-> 0, totalCarbs |-> 0,
          totalFat |-> 0, mealCount |-> 0]
    ELSE LET acc  == ReduceTotals(SubSeq(ms, 1, Len(ms) - 1))
             meal == ms[Len(ms)]
         IN  [totalCalories |-> acc.totalCalories + meal.calories,
              totalProtein  |-> acc.totalProtein + meal.protein,
              totalCarbs    |-> acc.totalCarbs + meal.carbs,
              totalFat      |-> acc.totalFat + meal.fat,
              mealCount     |-> acc.mealCount + 1]

\* calculateSummary; the optional fields of NutritionSummary are nullable
calculateSummary(ms, goal, startDate, endDate) ==
    LET totals == ReduceTotals(filteredMeals(ms, startDate, endDate))
    IN  IF goal # Null
        THEN LET goalCalories == GoalCalories(Val(goal))
             IN  totals @@
                 [dailyGoal  |-> Some(goalCalories),
                  goalType   |-> Some(Val(goal).goal_type),
                  goalStatus |-> Some(GoalStatus(totals.totalCalories,
                                                 goalCalories))]
        ELSE totals @@
             [dailyGoal |-> Null, goalType |-> Null, goalStatus |-> Null]

----------------------------------------------------------------------------
(* The persistence fallback chain of the save and update handlers *)

\* existingGoals.push(goalData) followed by setItem
FallbackPushOverwrite(existingGoals, goalData) == <<goalData>>
FallbackPush(existingGoals, goalData) == Append(existingGoals, goalData)

\* the catch (dbError) block runs only when the remote call reported an error
FallbackAlways(dbOk) == TRUE
FallbackNeeded(dbOk) == ~dbOk

\* the statements after the inner try/catch run unless the fallback threw
\* (the exception then reaches the outer catch of the handler)
SucceededAlways(dbOk, lsOk) == TRUE
Succeeded(dbOk, lsOk) == dbOk \/ lsOk

\* what the handler learnt from the two stores
Responses(op, dbOk, lsOk, value) ==
    [op |-> op,
     db |-> IF dbOk THEN "ok" ELSE "error",
     ls |-> IF dbOk THEN "none" ELSE IF lsOk THEN "ok" ELSE "throw",
     value |-> value]

----------------------------------------------------------------------------
(* Initial state: the calculator route is open, nobody is signed in, both  *)
(* stores are empty                                                         *)

NoEvent == [op |-> "none", db |-> "none", ls |-> "none", value |-> Null]

InitialInputs ==
    [age |-> << >>, weight |-> << >>, height |-> << >>,
     gender |-> "male", activityLevel |-> "1.55", unit |-> "metric"]

\* useState initial values of CaloriesCalculatorPage
CalcMount ==
    /\ inputs' = InitialInputs
    /\ results' = Null
    /\ isCalculated' = FALSE
    /\ isSaving' = FALSE
    /\ savedGoal' = Null
    /\ calcReq' = Null

\* useState initial values of History, but for loading (initially true),
\* which checkUser clears
HistMount ==
    /\ calorieGoals' = << >>
    /\ currentGoal' = Null
    /\ isEditingGoal' = FALSE
    /\ editedCalories' = << >>
    /\ isSavingEdit' = FALSE
    /\ showCustomGoal' = FALSE
    /\ customCalories' = << >>
    /\ isSavingCustomGoal' = FALSE

\* useState initial values of Index
IndexMount ==
    [selectedImage |-> Null, isAnalyzing |-> FALSE, nutritionData |-> Null,
     isSaving |-> FALSE, savedToHistory |-> FALSE]

\* no card rendered yet; Index in its initial state, awaiting no call,
\* nothing uploaded or inserted
ViewIdle ==
    /\ bars = Null
    /\ periods = Null
    /\ analyzer = IndexMount
    /\ awaited = [analysis |-> Null, save |-> Null]
    /\ mealStore = [images |-> {}, rows |-> << >>]

\* no classification and no summary requested yet, no meal loaded
ClsIdle ==
    /\ ViewIdle
    /\ clsTotal = 0
    /\ clsGoal = 0
    /\ clsStatus = "none"
    /\ meals = << >>
    /\ sumStart = 0
    /\ sumEnd = 0
    /\ summary = Null

StoreInit ==
    /\ now = 0
    /\ session = FALSE
    /\ remote = << >>
    /\ local = << >>
    /\ page = "calculator"
    /\ toast = "none"
    /\ inputs = InitialInputs
    /\ results = Null
    /\ isCalculated = FALSE
    /\ isSaving = FALSE
    /\ savedGoal = Null
    /\ calcReq = Null
    /\ loading = TRUE
    /\ calorieGoals = << >>
    /\ currentGoal = Null
    /\ isEditingGoal = FALSE
    /\ editedCalories = << >>
    /\ isSavingEdit = FALSE
    /\ showCustomGoal = FALSE
    /\ customCalories = << >>
    /\ isSavingCustomGoal = FALSE
    /\ histReq = Null
    /\ updates = 0
    /\ event = NoEvent
    /\ reported = {}

Init == StoreInit /\ ClsIdle

----------------------------------------------------------------------------
(* Values the user enters in the goal-store specification.  The form      *)
(* values pass the validation in both unit systems; in metric they give a  *)
(* positive maintenance (bmr 361.25, maintenance 560), in imperial a       *)
(* negative one (bmr -66.25, maintenance -103), so the calculator can      *)
(* save valid and invalid goal records, fresh or with inputs changed       *)
(* since the calculation.  The goal is saved with the Weight Loss button.  *)

FormEdits ==
    {<<"age", <<9, 0>>>>, <<"weight", <<8, 0>>>>, <<"height", <<1>>>>,
     <<"unit", "imperial">>}
GoalTypes   == {"weight_loss"}
EditTexts   == {<<1, 8, 0, 0>>}
CustomTexts == {<<0>>, <<1, 5, 0, 0>>}
MacroEdits  == {<<"protein_goal", Some(120)>>, <<"protein_goal", Null>>}

(* Forms of the engine specification: every field is missing, zero, below  *)
(* one, negative or valid, as whole numbers and as decimals, in both unit  *)
(* systems, for both genders and the five activity levels.                 *)
EngAges    == {<< >>, <<0>>, <<0, Dot, 9>>, <<Minus, 5>>, <<1>>, <<1, 6>>, <<2, 5>>}
EngWeights == {<< >>, <<0>>, <<0, Dot, 5>>, <<1>>, <<2, Dot, 4>>, <<7, 0>>,
               <<1, 5, 4>>}
EngHeights == {<< >>, <<0, Dot, 9>>, <<Minus, 1, 7, 5>>, <<1, 6, Dot, 4>>,
               <<7, 3, Dot, 6>>, <<1, 7, 5>>, <<6, 9>>}
Genders    == {"male", "female"}
Units      == {"metric", "imperial"}

EngForms ==
    [age : EngAges, weight : EngWeights, height : EngHeights,
     gender : Genders, activityLevel : DOMAIN activityLevels, unit : Units]

\* the values a field takes in the goal-store specification
FieldValues(field) ==
    {InitialInputs[field]} \cup {e[2] : e \in {x \in FormEdits : x[1] = field}}

StoreForms ==
    [age : FieldValues("age"), weight : FieldValues("weight"),
     height : FieldValues("height"), gender : FieldValues("gender"),
     activityLevel : FieldValues("activityLevel"), unit : FieldValues("unit")]

\* The engine is a pure function of the form: its results for the forms of
\* the two specifications, computed once as an explicit table.
Calculated ==
    [inp \in {f \in EngForms \cup StoreForms : ~InvalidInputs(f)} |->
        ComputeResults(inp)] @@ << >>

----------------------------------------------------------------------------
(* Authentication and routing *)

\* the /auth route: signing in opens the calculator again
\* (History, unmounted, is kept at its useState initial values)
SignIn ==
    /\ page = "auth"
    /\ session' = TRUE
    /\ page' = "calculator"
    /\ toast' = "none"
    /\ CalcMount
    /\ HistMount
    /\ loading' = TRUE
    /\ event' = NoEvent
    /\ UNCHANGED <<now, storeVars, histReq, updates, reported, clsVars>>

----------------------------------------------------------------------------
(* CaloriesCalculatorPage *)

handleInputChange(field, value) ==
    /\ page = "calculator"
    /\ inputs' = [inputs EXCEPT ![field] = value]
    /\ isCalculated' = FALSE
    /\ UNCHANGED <<now, session, storeVars, page, results, isSaving, savedGoal,
                   calcReq, histVars, updates, reported, clsVars>>
    /\ toast' = "none"
    /\ event' = NoEvent

isFormValid ==
    inputs.age # << >> /\ inputs.weight # << >> /\ inputs.height # << >>

calculateCalories ==
    /\ page = "calculator"
    /\ IF InvalidInputs(inputs)
       THEN UNCHANGED <<results, isCalculated>>
       ELSE /\ results' = Some(Calculated[inputs])
            /\ isCalculated' = TRUE
    /\ UNCHANGED <<now, session, storeVars, page, inputs, isSaving, savedGoal,
                   calcReq, histVars, updates, reported, clsVars>>
    /\ toast' = "none"
    /\ event' = NoEvent

\* the Calculate button: disabled unless age, weight and height are entered
clickCalculate == isFormValid /\ calculateCalories

resetCalculator ==
    /\ page = "calculator"
    /\ inputs' = InitialInputs
    /\ results' = Null
    /\ isCalculated' = FALSE
    /\ savedGoal' = Null
    /\ UNCHANGED <<now, session, storeVars, page, isSaving, calcReq, histVars,
                   updates, reported, clsVars>>
    /\ toast' = "none"
    /\ event' = NoEvent

\* saveCalorieGoal up to the awaited insert.  The save buttons are rendered
\* with the results and disabled while isSaving or savedGoal === goalType.
\* Two saves are separated by a click and a network round trip, so each
\* reading of Date.now() is later than the previous one.
saveCalorieGoal(goalType) ==
    /\ page = "calculator"
    /\ results # Null
    /\ ~isSaving
    /\ savedGoal # Some(goalType)
    /\ IF ~session
       THEN /\ toast' = "Sign in required"
            /\ page' = "auth"
            /\ CalcMount
            /\ event' = NoEvent
            /\ UNCHANGED now
       ELSE /\ now < MaxClock
            /\ now' = now + 1
            /\ isSaving' = TRUE
            /\ calcReq' = Some(CalcGoalData(now', goalType))
            /\ UNCHANGED <<page, inputs, results, isCalculated, savedGoal>>
            /\ toast' = "none"
            /\ event' = NoEvent
    /\ UNCHANGED <<session, storeVars, histVars, updates, reported, clsVars>>

\* saveCalorieGoal from the response of the insert to the finally block.
\* dbOk: the insert returned no error; lsOk: the localStorage fallback
\* (getItem, JSON.parse, setItem) did not throw.
saveCalorieGoalDone(dbOk, lsOk) ==
    /\ page = "calculator"
    /\ calcReq # Null
    /\ LET goalData == Val(calcReq) IN
       /\ remote' = IF dbOk THEN Append(remote, goalData) ELSE remote
       /\ local' = IF FallbackNeeded(dbOk) /\ lsOk
                   THEN FallbackPush(local, goalData) ELSE local
       /\ IF Succeeded(dbOk, lsOk)
          THEN /\ savedGoal' = Some(goalData.goal_type)
               /\ toast' = "Goal Saved!"
               /\ reported' = reported \cup {goalData.id}
          ELSE /\ toast' = "Save failed"
               /\ UNCHANGED <<savedGoal, reported>>
       /\ event' = Responses("saveCalorieGoal", dbOk, lsOk, Null)
    /\ isSaving' = FALSE
    /\ calcReq' = Null
    /\ UNCHANGED <<now, session, page, inputs, results, isCalculated, histVars,
                   updates, clsVars>>

----------------------------------------------------------------------------
(* History: mounting and loading *)

Req(op, goal, value) == [op |-> op, goal |-> goal, value |-> value]

noModal == ~isEditingGoal /\ ~showCustomGoal

\* navigate('/history') from the calculator; History mounts and checkUser
\* runs up to the awaited fetches (without a session it navigates to /auth)
openHistory ==
    /\ page = "calculator"
    /\ calcReq = Null
    /\ CalcMount
    /\ HistMount
    /\ toast' = "none"
    /\ event' = NoEvent
    /\ IF session
       THEN /\ page' = "history"
            /\ loading' = TRUE
            /\ histReq' = Some(Req("fetch", Null, Null))
       ELSE \* navigate('/auth'), return, and the finally block
            /\ page' = "auth"
            /\ loading' = FALSE
            /\ histReq' = Null
    /\ UNCHANGED <<now, session, storeVars, updates, reported, clsVars>>

\* navigate('/calculator') from the loaded history page
openCalculator ==
    /\ page = "history"
    /\ ~loading
    /\ histReq = Null
    /\ page' = "calculator"
    /\ CalcMount
    /\ HistMount
    /\ loading' = TRUE
    /\ histReq' = Null
    /\ toast' = "none"
    /\ event' = NoEvent
    /\ UNCHANGED <<now, session, storeVars, updates, reported, clsVars>>

\* what fetchCalorieGoals hands to setCalorieGoals and setCurrentGoal when
\* the table holds remoteRows and the localStorage list is localRows.
\* dbOk: the select returned no error; lsOk: reading and parsing the
\* localStorage list did not throw.
fetchedGoals(remoteRows, localRows, dbOk, lsOk) ==
    IF dbOk
    THEN LET data == SortDesc(remoteRows) IN
         [calorieGoals |-> data,
          currentGoal |-> IF Len(data) > 0 /\ IsValidGoal(data[1])
                          THEN Some(data[1]) ELSE Null]
    ELSE IF lsOk
    THEN LET localGoals == localRows IN
         IF Len(localGoals) > 0 /\ IsValidGoal(localGoals[1])
         THEN LET sortedGoals == SortDesc(localGoals) IN
              \* sort() reorders localGoals itself, the array already
              \* handed to setCalorieGoals
              [calorieGoals |-> sortedGoals,
               currentGoal |-> Some(sortedGoals[1])]
         ELSE [calorieGoals |-> localGoals, currentGoal |-> Null]
    ELSE [calorieGoals |-> << >>, currentGoal |-> Null]

\* fetchCalorieGoals from the response of the select to its end, followed
\* by the finally block of checkUser
fetchCalorieGoals(dbOk, lsOk) ==
    /\ page = "history"
    /\ histReq # Null
    /\ Val(histReq).op = "fetch"
    /\ calorieGoals' = fetchedGoals(remote, local, dbOk, lsOk).calorieGoals
    /\ currentGoal' = fetchedGoals(remote, local, dbOk, lsOk).currentGoal
    /\ loading' = FALSE
    /\ histReq' = Null
    /\ event' = Responses("fetchCalorieGoals", dbOk, lsOk, Null)
    /\ UNCHANGED <<now, session, storeVars, page, calcVars, isEditingGoal,
                   editedCalories, isSavingEdit, showCustomGoal,
                   customCalories, isSavingCustomGoal, updates, reported,
                   clsVars>>
    /\ toast' = "none"

----------------------------------------------------------------------------
(* History: editing the calorie target of the current goal *)

\* Edit button of the current-goal card (rendered for a valid current goal)
openEdit ==
    /\ page = "history" /\ ~loading /\ noModal
    /\ currentGoal # Null
    /\ IsValidGoal(Val(currentGoal))
    /\ isEditingGoal' = TRUE
    /\ editedCalories' = ToDigits(Val(currentGoal).maintenance_calories)
    /\ UNCHANGED <<now, session, storeVars, page, calcVars, loading,
                   calorieGoals, currentGoal, isSavingEdit, showCustomGoal,
                   customCalories, isSavingCustomGoal, histReq, updates,
                   reported, clsVars>>
    /\ toast' = "none"
    /\ event' = NoEvent

setEditedCalories(text) ==
    /\ page = "history" /\ isEditingGoal
    /\ editedCalories' = text
    /\ UNCHANGED <<now, session, storeVars, page, calcVars, loading,
                   calorieGoals, currentGoal, isEditingGoal, isSavingEdit,
                   showCustomGoal, customCalories, isSavingCustomGoal, histReq,
                   updates, reported, clsVars>>
    /\ toast' = "none"
    /\ event' = NoEvent

cancelEdit ==
    /\ page = "history" /\ isEditingGoal
    /\ isEditingGoal' = FALSE
    /\ editedCalories' = << >>
    /\ UNCHANGED <<now, session, storeVars, page, calcVars, loading,
                   calorieGoals, currentGoal, isSavingEdit, showCustomGoal,
                   customCalories, isSavingCustomGoal, histReq, updates,
                   reported, clsVars>>
    /\ toast' = "none"
    /\ event' = NoEvent

\* saveEditedCalorieGoal up to the awaited update (Save Changes is disabled
\* while isSavingEdit or with an empty field)
saveEditedCalorieGoal ==
    /\ page = "history" /\ isEditingGoal
    /\ ~isSavingEdit
    /\ editedCalories # << >>
    /\ histReq = Null
    /\ IF currentGoal = Null \/ InvalidCalories(editedCalories)
       THEN /\ toast' = "Invalid input"
            /\ UNCHANGED <<isSavingEdit, histReq, updates>>
       ELSE /\ updates < MaxUpdates
            /\ updates' = updates + 1
            /\ isSavingEdit' = TRUE
            /\ histReq' = Some(Req("edit", currentGoal,
                                   ParseNumber(editedCalories)))
            /\ toast' = "none"
    /\ UNCHANGED <<now, session, storeVars, page, calcVars, loading,
                   calorieGoals, currentGoal, isEditingGoal, editedCalories,
                   showCustomGoal, customCalories, isSavingCustomGoal,
                   reported, clsVars>>
    /\ event' = NoEvent

\* saveEditedCalorieGoal from the response of the update to the finally
\* block; currentGoal and editedCalories are the values of the closure
saveEditedCalorieGoalDone(dbOk, lsOk) ==
    /\ page = "history"
    /\ histReq # Null
    /\ Val(histReq).op = "edit"
    /\ LET closureGoal == Val(Val(histReq).goal)
           calories    == Val(Val(histReq).value)
           updatedGoal == CalorieEdit(closureGoal, calories)
       IN
       /\ remote' = IF dbOk
                    THEN UpdateCaloriesById(remote, closureGoal.id, calories)
                    ELSE remote
       /\ local' = IF FallbackNeeded(dbOk) /\ lsOk
                   THEN ReplaceById(local, closureGoal.id, updatedGoal)
                   ELSE local
       /\ IF Succeeded(dbOk, lsOk)
          THEN /\ currentGoal' = Some(updatedGoal)
               /\ calorieGoals' = ReplaceById(calorieGoals, closureGoal.id,
                                             updatedGoal)
               /\ isEditingGoal' = FALSE
               /\ editedCalories' = << >>
               /\ toast' = "Goal Updated!"
          ELSE /\ toast' = "Update failed"
               /\ UNCHANGED <<currentGoal, calorieGoals, isEditingGoal,
                              editedCalories>>
       /\ event' = Responses("saveEditedCalorieGoal", dbOk, lsOk, Some(calories))
    /\ isSavingEdit' = FALSE
    /\ histReq' = Null
    /\ UNCHANGED <<now, session, page, calcVars, loading, showCustomGoal,
                   customCalories, isSavingCustomGoal, updates, reported,
                   clsVars>>

----------------------------------------------------------------------------
(* History: creating a custom goal *)

\* Set Custom Goal button of the "No Calorie Goal Set" card
openCustomGoal ==
    /\ page = "history" /\ ~loading /\ noModal
    /\ currentGoal = Null
    /\ showCustomGoal' = TRUE
    /\ UNCHANGED <<now, session, storeVars, page, calcVars, loading,
                   calorieGoals, currentGoal, isEditingGoal, editedCalories,
                   isSavingEdit, customCalories, isSavingCustomGoal, histReq,
                   updates, reported, clsVars>>
    /\ toast' = "none"
    /\ event' = NoEvent

setCustomCalories(text) ==
    /\ page = "history" /\ showCustomGoal
    /\ customCalories' = text
    /\ UNCHANGED <<now, session, storeVars, page, calcVars, loading,
                   calorieGoals, currentGoal, isEditingGoal, editedCalories,
                   isSavingEdit, showCustomGoal, isSavingCustomGoal, histReq,
                   updates, reported, clsVars>>
    /\ toast' = "none"
    /\ event' = NoEvent

cancelCustomGoal ==
    /\ page = "history" /\ showCustomGoal
    /\ showCustomGoal' = FALSE
    /\ customCalories' = << >>
    /\ UNCHANGED <<now, session, storeVars, page, calcVars, loading,
                   calorieGoals, currentGoal, isEditingGoal, editedCalories,
                   isSavingEdit, isSavingCustomGoal, histReq, updates,
                   reported, clsVars>>
    /\ toast' = "none"
    /\ event' = NoEvent

\* saveCustomCalorieGoal up to the awaited insert.  History sets user before
\* it leaves the loading screen, so the sign-in branch cannot be taken here.
saveCustomCalorieGoal ==
    /\ page = "history" /\ showCustomGoal
    /\ ~isSavingCustomGoal
    /\ customCalories # << >>
    /\ histReq = Null
    /\ IF InvalidCalories(customCalories)
       THEN /\ toast' = "Invalid input"
            /\ UNCHANGED <<now, isSavingCustomGoal, histReq>>
       ELSE /\ now < MaxClock
            /\ now' = now + 1
            /\ isSavingCustomGoal' = TRUE
            /\ histReq' = Some(Req("custom",
                    Some(CustomGoalData(now', Val(ParseNumber(customCalories)))),
                    ParseNumber(customCalories)))
            /\ toast' = "none"
    /\ UNCHANGED <<session, storeVars, page, calcVars, loading, calorieGoals,
                   currentGoal, isEditingGoal, editedCalories, isSavingEdit,
                   showCustomGoal, customCalories, updates, reported, clsVars>>
    /\ event' = NoEvent

\* saveCustomCalorieGoal from the response of the insert to the finally block
saveCustomCalorieGoalDone(dbOk, lsOk) ==
    /\ page = "history"
    /\ histReq # Null
    /\ Val(histReq).op = "custom"
    /\ LET goalData == Val(Val(histReq).goal) IN
       /\ remote' = IF dbOk THEN Append(remote, goalData) ELSE remote
       /\ local' = IF FallbackNeeded(dbOk) /\ lsOk
                   THEN FallbackPush(local, goalData) ELSE local
       /\ IF Succeeded(dbOk, lsOk)
          THEN /\ currentGoal' = Some(goalData)
               /\ calorieGoals' = <<goalData>> \o calorieGoals
               /\ showCustomGoal' = FALSE
               /\ customCalories' = << >>
               /\ toast' = "Custom Goal Saved!"
               /\ reported' = reported \cup {goalData.id}
          ELSE /\ toast' = "Save failed"
               /\ UNCHANGED <<currentGoal, calorieGoals, showCustomGoal,
                              customCalories, reported>>
       /\ event' = Responses("saveCustomCalorieGoal", dbOk, lsOk, Val(histReq).value)
    /\ isSavingCustomGoal' = FALSE
    /\ histReq' = Null
    /\ UNCHANGED <<now, session, page, calcVars, loading, isEditingGoal,
                   editedCalories, isSavingEdit, updates, clsVars>>

----------------------------------------------------------------------------
(* History: macro targets of the current goal *)

\* onChange of a macro input: value ? parseFloat(value) : null
setMacroGoal(field, value) ==
    /\ page = "history" /\ ~loading /\ noModal
    /\ currentGoal # Null
    /\ currentGoal' = Some([Val(currentGoal) EXCEPT ![field] = value])
    /\ UNCHANGED <<now, session, storeVars, page, calcVars, loading,
                   calorieGoals, isEditingGoal, editedCalories, isSavingEdit,
                   showCustomGoal, customCalories, isSavingCustomGoal, histReq,
                   updates, reported, clsVars>>
    /\ toast' = "none"
    /\ event' = NoEvent

\* Clear All
clearMacroGoals ==
    /\ page = "history" /\ ~loading /\ noModal
    /\ currentGoal # Null
    /\ currentGoal' = Some([Val(currentGoal) EXCEPT !.protein_goal = Null,
                                                    !.carbs_goal = Null,
                                                    !.fat_goal = Null])
    /\ UNCHANGED <<now, session, storeVars, page, calcVars, loading,
                   calorieGoals, isEditingGoal, editedCalories, isSavingEdit,
                   showCustomGoal, customCalories, isSavingCustomGoal, histReq,
                   updates, reported, clsVars>>
    /\ toast' = "none"
    /\ event' = NoEvent

\* Save Goals onClick up to the awaited update
saveMacroGoals ==
    /\ page = "history" /\ ~loading /\ noModal
    /\ currentGoal # Null
    /\ histReq = Null
    /\ updates < MaxUpdates
    /\ updates' = updates + 1
    /\ histReq' = Some(Req("macros", currentGoal, Null))
    /\ UNCHANGED <<now, session, storeVars, page, calcVars, loading,
                   calorieGoals, currentGoal, isEditingGoal, editedCalories,
                   isSavingEdit, showCustomGoal, customCalories,
                   isSavingCustomGoal, reported, clsVars>>
    /\ toast' = "none"
    /\ event' = NoEvent

\* Save Goals onClick from the response of the update to its end; when the
\* fallback throws inside the catch block nothing is shown
saveMacroGoalsDone(dbOk, lsOk) ==
    /\ page = "history"
    /\ histReq # Null
    /\ Val(histReq).op = "macros"
    /\ LET closureGoal == Val(Val(histReq).goal) IN
       /\ remote' = IF dbOk
                    THEN UpdateMacrosById(remote, closureGoal.id, closureGoal)
                    ELSE remote
       /\ local' = IF FallbackNeeded(dbOk) /\ lsOk
                   THEN UpdateMacrosById(local, closureGoal.id, closureGoal)
                   ELSE local
    /\ toast' = IF Succeeded(dbOk, lsOk) THEN "Goals Updated!" ELSE "none"
    /\ event' = Responses("saveMacroGoals", dbOk, lsOk, Null)
    /\ histReq' = Null
    /\ UNCHANGED <<now, session, page, calcVars, loading, calorieGoals,
                   currentGoal, isEditingGoal, editedCalories, isSavingEdit,
                   showCustomGoal, customCalories, isSavingCustomGoal, updates,
                   reported, clsVars>>

----------------------------------------------------------------------------
(* Specification of the goal store and the two pages *)

Next ==
    \/ SignIn
    \/ \E e \in FormEdits : handleInputChange(e[1], e[2])
    \/ clickCalculate
    \/ resetCalculator
    \/ \E t \in GoalTypes : saveCalorieGoal(t)
    \/ \E dbOk, lsOk \in BOOLEAN : saveCalorieGoalDone(dbOk, lsOk)
    \/ openHistory
    \/ openCalculator
    \/ \E dbOk, lsOk \in BOOLEAN : fetchCalorieGoals(dbOk, lsOk)
    \/ openEdit
    \/ \E text \in EditTexts : setEditedCalories(text)
    \/ cancelEdit
    \/ saveEditedCalorieGoal
    \/ \E dbOk, lsOk \in BOOLEAN : saveEditedCalorieGoalDone(dbOk, lsOk)
    \/ openCustomGoal
    \/ \E text \in CustomTexts : setCustomCalories(text)
    \/ cancelCustomGoal
    \/ saveCustomCalorieGoal
    \/ \E dbOk, lsOk \in BOOLEAN : saveCustomCalorieGoalDone(dbOk, lsOk)
    \/ \E e \in MacroEdits : setMacroGoal(e[1], e[2])
    \/ clearMacroGoals
    \/ saveMacroGoals
    \/ \E dbOk, lsOk \in BOOLEAN : saveMacroGoalsDone(dbOk, lsOk)

Spec == Init /\ [][Next]_vars

----------------------------------------------------------------------------
(* Specification of the goal-status classification alone: the total and    *)
(* the goal calories are drawn from 0..MaxCls and 1..MaxCls times 50 kcal  *)

ClsInit ==
    /\ StoreInit
    /\ clsTotal \in {50 * k : k \in 0..MaxCls}
    /\ clsGoal \in {50 * k : k \in 1..MaxCls}
    /\ clsStatus = "none"
    /\ meals = << >>
    /\ sumStart = 0
    /\ sumEnd = 0
    /\ summary = Null
    /\ ViewIdle

\* the goal-status step of calculateSummary on (clsTotal, clsGoal)
classify ==
    /\ clsStatus = "none"
    /\ clsStatus' = GoalStatus(clsTotal, clsGoal)
    /\ UNCHANGED <<now, session, storeVars, page, toast, calcVars, histVars,
                   updates, event, reported, clsTotal, clsGoal, sumVars,
                   viewVars>>

ClsNext == classify

ClsSpec == ClsInit /\ [][ClsNext]_vars

----------------------------------------------------------------------------
(* Engine specification: calculateCalories called on every form of         *)
(* EngForms, on a calculator that has no results yet or that holds the     *)
(* results of an earlier calculation whose inputs were changed since.      *)

PriorInputs ==
    [age |-> <<3, 0>>, weight |-> <<6, 0>>, height |-> <<1, 6, 5>>,
     gender |-> "female", activityLevel |-> "1.2", unit |-> "metric"]

EngInit ==
    /\ now = 0
    /\ session = FALSE
    /\ remote = << >>
    /\ local = << >>
    /\ page = "calculator"
    /\ toast = "none"
    /\ inputs \in EngForms
    /\ results \in {Null, Some(ComputeResults(PriorInputs))}
    /\ isCalculated = FALSE
    /\ isSaving = FALSE
    /\ savedGoal = Null
    /\ calcReq = Null
    /\ loading = TRUE
    /\ calorieGoals = << >>
    /\ currentGoal = Null
    /\ isEditingGoal = FALSE
    /\ editedCalories = << >>
    /\ isSavingEdit = FALSE
    /\ showCustomGoal = FALSE
    /\ customCalories = << >>
    /\ isSavingCustomGoal = FALSE
    /\ histReq = Null
    /\ updates = 0
    /\ event = NoEvent
    /\ reported = {}
    /\ ClsIdle

EngNext == calculateCalories

EngSpec == EngInit /\ [][EngNext]_vars

----------------------------------------------------------------------------
(* Summary specification: the history page with up to MaxMeals loaded      *)
(* meals and with no current goal, a custom goal or a calculator goal,     *)
(* asked for the summary of every window over MealTimes.                   *)

MaxMeals  == 2
MealTimes == 1..3

Dishes ==
    {[calories |-> 200, protein |-> 10, carbs |-> 30, fat |-> 5],
     [calories |-> 450, protein |-> 25, carbs |-> 40, fat |-> 20]}

MealRows == {[analyzed_at |-> t] @@ d : t \in MealTimes, d \in Dishes}

MealLists == UNION {[1..n -> MealRows] : n \in 0..MaxMeals}

\* the goal saved with the Weight Loss button for a male of age 30, 15.5 kg
\* and 50 cm at activity 1.55: bmr 322.5, tdee 499.875, tdee - 500 = -0.125
SmallBodyInputs ==
    [age |-> <<3, 0>>, weight |-> <<1, 5, Dot, 5>>, height |-> <<5, 0>>,
     gender |-> "male", activityLevel |-> "1.55", unit |-> "metric"]

SmallBodyGoal ==
    LET r == ComputeResults(SmallBodyInputs)
    IN  [CustomGoalData(1, r.maintenance) EXCEPT
            !.id = <<"goal", 1>>, !.bmr = r.bmr, !.tdee = r.tdee,
            !.weight_loss_calories = r.weightLoss,
            !.weight_gain_calories = r.weightGain,
            !.age = ParseInt(SmallBodyInputs.age),
            !.weight = ParseFloat(SmallBodyInputs.weight),
            !.height = ParseFloat(SmallBodyInputs.height),
            !.gender = SmallBodyInputs.gender,
            !.activity_level = SmallBodyInputs.activityLevel,
            !.unit_system = SmallBodyInputs.unit,
            !.goal_type = "weight_loss"]

SumGoals == {Null, Some(CustomGoalData(1, 450)), Some(SmallBodyGoal)}

SumInit ==
    /\ now = 1
    /\ session = TRUE
    /\ currentGoal \in SumGoals
    /\ remote = currentGoal
    /\ local = << >>
    /\ page = "history"
    /\ toast = "none"
    /\ inputs = InitialInputs
    /\ results = Null
    /\ isCalculated = FALSE
    /\ isSaving = FALSE
    /\ savedGoal = Null
    /\ calcReq = Null
    /\ loading = FALSE
    /\ calorieGoals = currentGoal
    /\ isEditingGoal = FALSE
    /\ editedCalories = << >>
    /\ isSavingEdit = FALSE
    /\ showCustomGoal = FALSE
    /\ customCalories = << >>
    /\ isSavingCustomGoal = FALSE
    /\ histReq = Null
    /\ updates = 0
    /\ event = NoEvent
    /\ reported = IF currentGoal = Null THEN {} ELSE {Val(currentGoal).id}
    /\ clsTotal = 0
    /\ clsGoal = 0
    /\ clsStatus = "none"
    /\ meals \in MealLists
    /\ sumStart = 0
    /\ sumEnd = 0
    /\ summary = Null
    /\ ViewIdle

\* useMemo(() => calculateSummary(startDate, endDate), ...)
summaryMemo(startDate, endDate) ==
    /\ page = "history"
    /\ ~loading
    /\ summary' = Some(calculateSummary(meals, currentGoal, startDate, endDate))
    /\ sumStart' = startDate
    /\ sumEnd' = endDate
    /\ UNCHANGED <<now, session, storeVars, page, toast, calcVars, histVars,
                   updates, event, reported, clsTotal, clsGoal, clsStatus,
                   meals, viewVars>>

SumNext == \E startDate, endDate \in MealTimes : summaryMemo(startDate, endDate)

SumSpec == SumInit /\ [][SumNext]_vars

----------------------------------------------------------------------------
(* Card specification: SummaryCard rendered on the summary of the window   *)
(* holding every loaded meal, for a current goal whose macro targets are   *)
(* absent, zero, negative or positive.                                     *)

\* the macro rows of the card: the total of the summary and the target of
\* the current goal that each row reads
MacroRows ==
    [protein |-> [total |-> "totalProtein", goal |-> "protein_goal"],
     carbs   |-> [total |-> "totalCarbs",   goal |-> "carbs_goal"],
     fat     |-> [total |-> "totalFat",     goal |-> "fat_goal"]]

\* `currentGoal.protein_goal &&`: the target is neither null nor 0
Truthy(target) == target # Null /\ Val(target) # 0

\* (summary.totalProtein / currentGoal.protein_goal) * 100
percentOfGoal(total, target) ==
    DoubleMul(DoubleDiv(DoubleFromInt(total), DoubleFromInt(target)),
              DoubleFromInt(100))

\* Math.min(100, p)
MathMin100(p) ==
    IF DoubleCmp(DoubleFromInt(100), p) <= 0 THEN DoubleFromInt(100) ELSE p

\* one macro row: Null when it is not rendered, else the number of the
\* '% of goal' label and the width of the bar in percent
macroRow(total, target) ==
    IF ~Truthy(target) THEN Null
    ELSE LET p == percentOfGoal(total, Val(target))
         IN  Some([label |-> MathRound(p), width |-> MathMin100(p)])

\* the 'Nutrition Progress' block of the card (Null: the block is absent)
nutritionProgress(s, goal) ==
    IF goal = Null
       \/ \A m \in DOMAIN MacroRows : ~Truthy(Val(goal)[MacroRows[m].goal])
    THEN Null
    ELSE Some([m \in DOMAIN MacroRows |->
                 macroRow(s[MacroRows[m].total],
                          Val(goal)[MacroRows[m].goal])])

\* goals whose macro targets are absent, zero, negative or positive
CardGoals ==
    LET targets == {Null, Some(0), Some(-5), Some(30)}
    IN  {Some([CustomGoalData(1, 450) EXCEPT
                  !.protein_goal = p, !.carbs_goal = c, !.fat_goal = f]) :
            p \in targets, c \in targets, f \in targets}

CardInit ==
    /\ now = 1
    /\ session = TRUE
    /\ currentGoal \in CardGoals
    /\ remote = currentGoal
    /\ local = << >>
    /\ page = "history"
    /\ toast = "none"
    /\ inputs = InitialInputs
    /\ results = Null
    /\ isCalculated = FALSE
    /\ isSaving = FALSE
    /\ savedGoal = Null
    /\ calcReq = Null
    /\ loading = FALSE
    /\ calorieGoals = currentGoal
    /\ isEditingGoal = FALSE
    /\ editedCalories = << >>
    /\ isSavingEdit = FALSE
    /\ showCustomGoal = FALSE
    /\ customCalories = << >>
    /\ isSavingCustomGoal = FALSE
    /\ histReq = Null
    /\ updates = 0
    /\ event = NoEvent
    /\ reported = {Val(currentGoal).id}
    /\ clsTotal = 0
    /\ clsGoal = 0
    /\ clsStatus = "none"
    /\ meals \in MealLists
    /\ sumStart = 1
    /\ sumEnd = 3
    /\ summary = Some(calculateSummary(meals, currentGoal, sumStart, sumEnd))
    /\ ViewIdle

\* <SummaryCard summary={...} />
SummaryCard ==
    /\ page = "history"
    /\ ~loading
    /\ summary # Null
    /\ bars = Null
    /\ bars' = Some(nutritionProgress(Val(summary), currentGoal))
    /\ UNCHANGED <<now, session, storeVars, page, toast, calcVars, histVars,
                   updates, event, reported, clsTotal, clsGoal, clsStatus,
                   sumVars, periods, indexVars>>

CardSpec == CardInit /\ [][SummaryCard]_vars

----------------------------------------------------------------------------
(* Period specification: the history page with up to MaxMeals loaded meals *)
(* renders its three standard summaries at an instant of a small calendar: *)
(* an instant is a tick, a day has 2 ticks, a month 2 days, a year 2       *)
(* months.                                                                  *)

PeriodTicks == [day |-> 2, month |-> 4, year |-> 8]

\* a month and a year that start at their middle
startOfMidPeriod(period, t) ==
    IF period = "day" THEN t - (t % PeriodTicks[period])
    ELSE t - (t % PeriodTicks[period]) + PeriodTicks[period] \div 2

\* startOfDay / startOfMonth / startOfYear of date-fns: the first instant
\* of the period that holds t
startOf(period, t) == t - (t % PeriodTicks[period])

\* endOfDay / endOfMonth / endOfYear of date-fns: the last instant of the
\* period that holds t
endOf(period, t) == startOf(period, t) + PeriodTicks[period] - 1

\* instants of two consecutive years: two ticks of the first day, the
\* second day, the second month, and the first day of the next year
Instants == {0, 1, 2, 5, 8, 9}

PeriodRows == {[analyzed_at |-> t] @@ d : t \in Instants, d \in Dishes}

PeriodInit ==
    /\ now = 0
    /\ session = TRUE
    /\ currentGoal \in SumGoals
    /\ remote = currentGoal
    /\ local = << >>
    /\ page = "history"
    /\ toast = "none"
    /\ inputs = InitialInputs
    /\ results = Null
    /\ isCalculated = FALSE
    /\ isSaving = FALSE
    /\ savedGoal = Null
    /\ calcReq = Null
    /\ loading = FALSE
    /\ calorieGoals = currentGoal
    /\ isEditingGoal = FALSE
    /\ editedCalories = << >>
    /\ isSavingEdit = FALSE
    /\ showCustomGoal = FALSE
    /\ customCalories = << >>
    /\ isSavingCustomGoal = FALSE
    /\ histReq = Null
    /\ updates = 0
    /\ event = NoEvent
    /\ reported = IF currentGoal = Null THEN {} ELSE {Val(currentGoal).id}
    /\ clsTotal = 0
    /\ clsGoal = 0
    /\ clsStatus = "none"
    /\ meals \in UNION {[1..n -> PeriodRows] : n \in 0..MaxMeals}
    /\ sumStart = 0
    /\ sumEnd = 0
    /\ summary = Null
    /\ ViewIdle

\* a render of History at the instant t: const now = new Date() and the
\* three useMemo summaries
standardSummaries(t) ==
    /\ page = "history"
    /\ ~loading
    /\ t >= now
    /\ now' = t
    /\ periods' = Some([p \in DOMAIN PeriodTicks |->
                          calculateSummary(meals, currentGoal,
                                           startOf(p, t), endOf(p, t))])
    /\ UNCHANGED <<session, storeVars, page, toast, calcVars, histVars,
                   updates, event, reported, clsTotal, clsGoal, clsStatus,
                   sumVars, bars, indexVars>>

PeriodSpec ==
    PeriodInit /\ [][\E t \in Instants : standardSummaries(t)]_vars

----------------------------------------------------------------------------
(* The analyzer page (Index): a meal image is sent to the analysis webhook, *)
(* the answer is validated and shown, and the shown analysis can be saved  *)
(* to the history (image upload, then insert into meal_analyses).          *)

MaxSaves == 2

Images == {"a.jpg", "b.jpg"}

TotalFields == {"calories", "protein", "carbs", "fat"}

\* result.total of an answer: absent, numeric, or with a field that is not
\* a number
Totals ==
    LET Num(n) == [type |-> "number", value |-> n]
        Str(n) == [type |-> "string", value |-> n]
    IN
    {Null,
     Some([calories |-> Num(524), protein |-> Num(20), carbs |-> Num(60),
           fat |-> Num(22)]),
     Some([calories |-> Num(310), protein |-> Num(12), carbs |-> Num(40),
           fat |-> Num(9)]),
     Some([calories |-> Num(524), protein |-> Num(20), carbs |-> Num(60),
           fat |-> Str(22)]),
     Some([calories |-> Str(524), protein |-> Num(20), carbs |-> Num(60),
           fat |-> Num(22)])}

\* the output object of an answer (Null: absent); its food is an array of
\* line items or something else
Outputs ==
    {Null} \cup
    {Some([status |-> s, total |-> t, food |-> f]) :
        s \in {"success", "error"}, t \in Totals,
        f \in {[isArray |-> TRUE, items |-> 2],
                [isArray |-> FALSE, items |-> 0]}}

\* the parsed body: an array of at most one {output}, an object with an
\* 'output' key, an object with a 'message' key, or anything else
Bodies ==
    {[kind |-> "array", items |-> 1, output |-> o, message |-> ""] :
        o \in Outputs} \cup
    {[kind |-> "object", items |-> 0, output |-> o, message |-> ""] :
        o \in Outputs} \cup
    {[kind |-> "array", items |-> 0, output |-> Null, message |-> ""],
     [kind |-> "message", items |-> 0, output |-> Null,
      message |-> "Workflow was started"],
     [kind |-> "message", items |-> 0, output |-> Null, message |-> "busy"],
     [kind |-> "other", items |-> 0, output |-> Null, message |-> ""]}

\* what the awaited fetch and response.json() produce: the request is
\* rejected, the status is not 2xx, the body is not JSON, or a parsed body
WebhookAnswers ==
    {[http |-> h, data |-> Null] : h \in {"rejected", "error", "notJson"}}
    \cup {[http |-> "ok", data |-> Some(b)] : b \in Bodies}

\* normalizedArray[0]?.output (Null: undefined), for a normalizedArray
\* that is not null
firstOutput(data) ==
    IF data.kind = "array" /\ data.items = 0 THEN Null ELSE data.output

\* the typeof tests of the four fields of result.total
numericTotalButFat(total) ==
    \A f \in TotalFields \ {"fat"} : total[f].type = "number"

numericTotal(total) == \A f \in TotalFields : total[f].type = "number"

\* the try block of handleImageSelect after the awaited fetch: the value
\* handed to setNutritionData (Null: an Error was thrown before) and the
\* title of the toast
analysisOutcome(answer) ==
    LET failed == [nutritionData |-> Null, toast |-> "Analysis Failed"]
    IN  IF answer.http # "ok" THEN failed
        ELSE LET data == Val(answer.data) IN
        IF data.kind \notin {"array", "object"} THEN failed
        ELSE LET result == firstOutput(data) IN
        IF result = Null \/ Val(result).status # "success" THEN failed
        ELSE IF Val(result).total = Null
                \/ ~numericTotal(Val(Val(result).total)) THEN failed
        ELSE IF ~Val(result).food.isArray THEN failed
        ELSE LET total == Val(Val(result).total) IN
             [nutritionData |->
                  Some([calories |-> total.calories.value,
                        protein |-> total.protein.value,
                        carbs |-> total.carbs.value,
                        fat |-> total.fat.value,
                        foodItems |-> Val(result).food.items]),
              toast |-> "Analysis Complete!"]

AnInit ==
    /\ now = 0
    /\ session \in BOOLEAN
    /\ remote = << >>
    /\ local = << >>
    /\ page = "index"
    /\ toast = "none"
    /\ inputs = InitialInputs
    /\ results = Null
    /\ isCalculated = FALSE
    /\ isSaving = FALSE
    /\ savedGoal = Null
    /\ calcReq = Null
    /\ loading = TRUE
    /\ calorieGoals = << >>
    /\ currentGoal = Null
    /\ isEditingGoal = FALSE
    /\ editedCalories = << >>
    /\ isSavingEdit = FALSE
    /\ showCustomGoal = FALSE
    /\ customCalories = << >>
    /\ isSavingCustomGoal = FALSE
    /\ histReq = Null
    /\ updates = 0
    /\ event = NoEvent
    /\ reported = {}
    /\ ClsIdle

indexFrame ==
    UNCHANGED <<now, session, storeVars, page, calcVars, histVars, updates,
                reported, clsTotal, clsGoal, clsStatus, sumVars, bars,
                periods>>

\* handleImageSelect up to the awaited fetch.  ImageUpload is rendered
\* while there is no nutritionData; it is handed isAnalyzing and offers its
\* file input while no analysis is running.
handleImageSelect(file) ==
    /\ page = "index"
    /\ analyzer.nutritionData = Null
    /\ ~analyzer.isAnalyzing
    /\ analyzer' = [analyzer EXCEPT !.selectedImage = Some(file),
                                    !.nutritionData = Null,
                                    !.savedToHistory = FALSE,
                                    !.isAnalyzing = TRUE]
    /\ awaited' = [awaited EXCEPT !.analysis = Some(file)]
    /\ toast' = "none"
    /\ UNCHANGED mealStore
    /\ event' = NoEvent
    /\ indexFrame

\* handleImageSelect from the answer of the webhook to the finally block
handleImageSelectDone(answer) ==
    /\ page = "index"
    /\ awaited.analysis # Null
    /\ LET outcome == analysisOutcome(answer) IN
       /\ analyzer' = [analyzer EXCEPT
                         !.nutritionData =
                             IF outcome.nutritionData # Null
                             THEN outcome.nutritionData ELSE @,
                         !.isAnalyzing = FALSE]
       /\ toast' = outcome.toast
    /\ event' = [op |-> "handleImageSelect", db |-> "none", ls |-> "none",
                 value |-> Some(answer)]
    /\ awaited' = [awaited EXCEPT !.analysis = Null]
    /\ UNCHANGED mealStore
    /\ indexFrame

\* handleClear: the clear button of ImageUpload (offered with the preview
\* of the selected image while no analysis is running) and the Analyze
\* Another Meal button of the results (handleNewAnalysis)
handleClear ==
    /\ page = "index"
    /\ \/ analyzer.nutritionData # Null
       \/ analyzer.selectedImage # Null /\ ~analyzer.isAnalyzing
    /\ analyzer' = [analyzer EXCEPT !.selectedImage = Null,
                                    !.nutritionData = Null,
                                    !.isAnalyzing = FALSE,
                                    !.savedToHistory = FALSE]
    /\ toast' = "none"
    /\ UNCHANGED <<awaited, mealStore>>
    /\ event' = NoEvent
    /\ indexFrame

\* handleSaveToHistory up to the awaited upload of saveMealAnalysis.  The
\* button is rendered with the results for a signed-in user while
\* savedToHistory is false, and disabled while isSaving.
handleSaveToHistory ==
    /\ page = "index"
    /\ analyzer.nutritionData # Null
    /\ session
    /\ ~analyzer.savedToHistory
    /\ ~analyzer.isSaving
    /\ Len(mealStore.rows) < MaxSaves
    /\ IF analyzer.selectedImage = Null
       THEN UNCHANGED <<analyzer, awaited>>
       ELSE /\ analyzer' = [analyzer EXCEPT !.isSaving = TRUE]
            /\ awaited' = [awaited EXCEPT !.save =
                             Some([imageFile |-> Val(analyzer.selectedImage),
                                   nutrition |-> Val(analyzer.nutritionData),
                                   call |-> "upload"])]
    /\ toast' = "none"
    /\ UNCHANGED mealStore
    /\ event' = NoEvent
    /\ indexFrame

\* a catch block with no finally: the failure is reported, the busy flag
\* stays
saveFailedBusy ==
    /\ UNCHANGED analyzer
    /\ awaited' = [awaited EXCEPT !.save = Null]
    /\ toast' = "Save failed"

\* the catch and finally blocks of handleSaveToHistory
saveFailed ==
    /\ analyzer' = [analyzer EXCEPT !.isSaving = FALSE]
    /\ awaited' = [awaited EXCEPT !.save = Null]
    /\ toast' = "Save failed"

\* saveMealAnalysis from the answer of the storage upload to the awaited
\* insert
uploadDone(ok) ==
    /\ page = "index"
    /\ awaited.save # Null
    /\ Val(awaited.save).call = "upload"
    /\ IF ok
       THEN /\ mealStore' = [mealStore EXCEPT
                               !.images = @ \cup {Val(awaited.save).imageFile}]
            /\ awaited' = [awaited EXCEPT !.save =
                             Some([Val(awaited.save) EXCEPT !.call = "insert"])]
            /\ toast' = "none"
            /\ UNCHANGED analyzer
       ELSE /\ saveFailed
            /\ UNCHANGED mealStore
    /\ event' = NoEvent
    /\ indexFrame

\* saveMealAnalysis from the answer of the insert to its end, and the rest
\* of handleSaveToHistory
insertDone(ok) ==
    /\ page = "index"
    /\ awaited.save # Null
    /\ Val(awaited.save).call = "insert"
    /\ IF ok
       THEN /\ mealStore' = [mealStore EXCEPT
                               !.rows = Append(@,
                                   [image_url |-> Val(awaited.save).imageFile]
                                   @@ Val(awaited.save).nutrition)]
            /\ analyzer' = [analyzer EXCEPT !.savedToHistory = TRUE,
                                            !.isSaving = FALSE]
            /\ awaited' = [awaited EXCEPT !.save = Null]
            /\ toast' = "Saved to History!"
       ELSE /\ saveFailed
            /\ UNCHANGED mealStore
    /\ event' = NoEvent
    /\ indexFrame

AnNext ==
    \/ \E file \in Images : handleImageSelect(file)
    \/ \E answer \in WebhookAnswers : handleImageSelectDone(answer)
    \/ handleClear
    \/ handleSaveToHistory
    \/ \E ok \in BOOLEAN : uploadDone(ok)
    \/ \E ok \in BOOLEAN : insertDone(ok)

AnSpec == AnInit /\ [][AnNext]_vars

----------------------------------------------------------------------------
(* Both programs with their awaited calls answered.  Every handler awaits  *)
(* a remote call (an insert, update or select of calorie_goals, the        *)
(* analysis webhook, the storage upload, the insert into meal_analyses)    *)
(* whose promise settles; the continuation of the handler then runs on the *)
(* event loop whatever else the user does.                                  *)

CallsSettle ==
    /\ WF_vars(\E dbOk, lsOk \in BOOLEAN : saveCalorieGoalDone(dbOk, lsOk))
    /\ WF_vars(\E dbOk, lsOk \in BOOLEAN : fetchCalorieGoals(dbOk, lsOk))
    /\ WF_vars(\E dbOk, lsOk \in BOOLEAN :
                 saveEditedCalorieGoalDone(dbOk, lsOk))
    /\ WF_vars(\E dbOk, lsOk \in BOOLEAN :
                 saveCustomCalorieGoalDone(dbOk, lsOk))
    /\ WF_vars(\E answer \in WebhookAnswers : handleImageSelectDone(answer))
    /\ WF_vars(\E ok \in BOOLEAN : uploadDone(ok))
    /\ WF_vars(\E ok \in BOOLEAN : insertDone(ok))

LiveSpec == (Init \/ AnInit) /\ [][Next \/ AnNext]_vars /\ CallsSettle

----------------------------------------------------------------------------
(* Properties of the goal store *)

\* the goalData whose insert is awaited by a save handler, if any
PendingSave ==
    IF calcReq # Null THEN calcReq
    ELSE IF histReq # Null /\ Val(histReq).op = "custom" THEN Val(histReq).goal
    ELSE Null

\* a step in which a save handler receives the response of its insert
SaveResponds == PendingSave # Null /\ PendingSave' = Null

SaveOps == {"saveCalorieGoal", "saveCustomCalorieGoal"}
SavedToasts == {"Goal Saved!", "Custom Goal Saved!"}

\* C1 as stated: whenever the remote insert of a save fails, the goal is
\* appended to the local list, the earlier entries are kept and the save is
\* reported successful; when the insert succeeds the local list is untouched.
C1_AnyRemoteFailureFallsBack ==
    [][SaveResponds =>
         IF event'.db = "error"
         THEN /\ local' = Append(local, Val(PendingSave))
              /\ toast' \in SavedToasts
         ELSE local' = local]_vars

\* C1 amended: whenever the remote insert of a save fails and the
\* localStorage fallback does not throw, the goal is appended to the local
\* list, the earlier entries are kept and the save is reported successful;
\* when the insert succeeds the local list is untouched.
C1_FallbackAppends ==
    [][SaveResponds =>
         /\ (event'.db = "error" /\ event'.ls = "ok") =>
              /\ local' = Append(local, Val(PendingSave))
              /\ toast' \in SavedToasts
         /\ event'.db = "ok" => local' = local]_vars

C1_Witness ==
    /\ event.op \in SaveOps
    /\ event.db = "error" /\ event.ls = "ok"
    /\ toast \in SavedToasts
    /\ Len(local) = 2

\* C2: when the remote insert and the local fallback both fail, the save is
\* reported as failed, savedGoal and currentGoal keep their values, neither
\* store holds the new record and the busy flag is cleared.
C2_DoubleFailureReported ==
    [][(SaveResponds /\ event'.db = "error" /\ event'.ls = "throw") =>
         /\ toast' = "Save failed"
         /\ savedGoal' = savedGoal
         /\ currentGoal' = currentGoal
         /\ Val(PendingSave).id \notin (Ids(remote') \cup Ids(local'))
         /\ Val(PendingSave).id \notin reported'
         /\ ~isSaving' /\ ~isSavingCustomGoal']_vars

C2_Witness ==
    /\ event.op \in SaveOps
    /\ event.db = "error" /\ event.ls = "throw"
    /\ toast = "Save failed"
    /\ ~isSaving /\ ~isSavingCustomGoal

\* C3: every goal whose save was reported successful is held by exactly one
\* of the remote table and the local list, and no goal id is ever present in
\* both stores.
C3_ExactlyOneCopy ==
    /\ \A id \in reported : (id \in Ids(remote)) # (id \in Ids(local))
    /\ Ids(remote) \cap Ids(local) = {}

C3_Witness ==
    /\ Cardinality(reported) = 2
    /\ Len(remote) = 1
    /\ Len(local) = 1

\* the list handed to the selection of the current goal by the last load
LoadedList == IF event.db = "ok" THEN SortDesc(remote) ELSE local

IsSortedDesc(goals) ==
    \A i \in 1..(Len(goals) - 1) : goals[i].created_at >= goals[i + 1].created_at

ValidIndexes(goals) == {i \in 1..Len(goals) : IsValidGoal(goals[i])}

FirstValidId(goals) ==
    IF ValidIndexes(goals) = {} THEN Null
    ELSE Some(goals[CHOOSE i \in ValidIndexes(goals) :
                        \A j \in ValidIndexes(goals) : i <= j].id)

CurrentGoalId == IF currentGoal = Null THEN Null ELSE Some(Val(currentGoal).id)

\* C4: after a load of a list in created_at-descending order, the current
\* goal is the first valid entry of the list (invalid entries before it are
\* skipped), and there is no current goal only when no entry is valid.
C4_FirstValidSelected ==
    (/\ page = "history"
     /\ event.op = "fetchCalorieGoals"
     /\ event.ls # "throw"
     /\ IsSortedDesc(LoadedList))
    => CurrentGoalId = FirstValidId(LoadedList)

\* C5: in the history view a current goal always has a non-empty id and
\* maintenance_calories > 0.
C5_CurrentGoalValid ==
    (page = "history" /\ currentGoal # Null) => IsValidGoal(Val(currentGoal))

\* a step in which an update handler receives the response of its update
UpdateResponds ==
    /\ histReq # Null
    /\ Val(histReq).op \in {"edit", "macros"}
    /\ histReq' = Null

\* the record g with only the fields of the awaited update written into it
MergedUpdate(g) ==
    IF Val(histReq).op = "edit"
    THEN [g EXCEPT !.weight_loss_calories = Val(Val(histReq).value),
                   !.weight_gain_calories = Val(Val(histReq).value),
                   !.goal_type = "custom"]
    ELSE [g EXCEPT !.protein_goal = Val(Val(histReq).goal).protein_goal,
                   !.carbs_goal = Val(Val(histReq).goal).carbs_goal,
                   !.fat_goal = Val(Val(histReq).goal).fat_goal]

\* C6: when the remote update fails, the fallback leaves the length of the
\* local list and every record with another id unchanged, and the record
\* with the id of the updated goal is that record with the edited fields
\* merged into it.
C6_FallbackMergesById ==
    [][(UpdateResponds /\ event'.db = "error" /\ event'.ls = "ok") =>
         /\ Len(local') = Len(local)
         /\ \A i \in 1..Len(local) :
              local'[i] = IF local[i].id = Val(Val(histReq).goal).id
                          THEN MergedUpdate(local[i])
                          ELSE local[i]]_vars

FrameFields == {"id", "bmr", "tdee", "maintenance_calories", "created_at"}

EditedTo(g, old, v) ==
    /\ g.goal_type = "custom"
    /\ g.weight_loss_calories = v
    /\ g.weight_gain_calories = v
    /\ \A f \in FrameFields : g[f] = old[f]

\* C7: a calorie edit to v that is reported successful sets goal_type to
\* 'custom' and both weight_loss_calories and weight_gain_calories to v, and
\* keeps id, bmr, tdee, maintenance_calories and created_at, in the current
\* goal and in the record of the store that accepted the write.
C7_EditFrame ==
    [][(/\ histReq # Null /\ Val(histReq).op = "edit" /\ histReq' = Null
        /\ toast' = "Goal Updated!") =>
         LET v  == Val(Val(histReq).value)
             id == Val(currentGoal).id
         IN  /\ currentGoal # Null /\ currentGoal' # Null
             /\ EditedTo(Val(currentGoal'), Val(currentGoal), v)
             /\ event'.db = "ok" =>
                  /\ Len(remote') = Len(remote)
                  /\ \A i \in 1..Len(remote) :
                       IF remote[i].id = id
                       THEN EditedTo(remote'[i], remote[i], v)
                       ELSE remote'[i] = remote[i]
             /\ event'.db = "error" =>
                  /\ Len(local') = Len(local)
                  /\ \A i \in 1..Len(local) :
                       IF local[i].id = id
                       THEN EditedTo(local'[i], local[i], v)
                       ELSE local'[i] = local[i]]_vars

StoredCurrent ==
    {g \in {remote[i] : i \in 1..Len(remote)} \cup
           {local[i] : i \in 1..Len(local)} :
        currentGoal # Null /\ g.id = Val(currentGoal).id}

C7_Witness ==
    /\ event.op = "saveEditedCalorieGoal"
    /\ toast = "Goal Updated!"
    /\ \E g \in StoredCurrent :
         /\ g.goal_type = "custom"
         /\ g.weight_loss_calories = Val(event.value)
         /\ g.maintenance_calories # Val(event.value)
         /\ g.bmr # 0

\* C8: after a custom goal is created with value v or the current goal is
\* edited to v, the dailyGoal of the summaries is v, and it stays v while the
\* history page only handles input that completes no request; the target is
\* maintenance_calories for 'maintenance', weight_loss_calories for
\* 'weight_loss' and weight_gain_calories for any other goal type.
C8_DailyGoalIsTarget ==
    /\ []((page = "history" /\ currentGoal # Null) =>
           LET g == Val(currentGoal) IN
           /\ (event.op \in {"saveEditedCalorieGoal", "saveCustomCalorieGoal"}
               /\ event.ls # "throw") => GoalCalories(g) = Val(event.value)
           /\ \A ty \in {"maintenance", "weight_loss", "weight_gain", "custom"} :
                LET h == [g EXCEPT !.goal_type = ty] IN
                GoalCalories(h) =
                  CASE ty = "maintenance" -> g.maintenance_calories
                    [] ty = "weight_loss" -> g.weight_loss_calories
                    [] OTHER              -> g.weight_gain_calories)
    /\ [][(/\ page = "history" /\ page' = "history"
           /\ currentGoal # Null /\ currentGoal' # Null
           /\ event'.op = "none") =>
            GoalCalories(Val(currentGoal')) = GoalCalories(Val(currentGoal))]_vars

C8_Witness ==
    /\ page = "history" /\ currentGoal # Null
    /\ event.op = "saveEditedCalorieGoal" /\ event.ls # "throw"
    /\ Val(currentGoal).maintenance_calories # Val(event.value)
    /\ GoalCalories(Val(currentGoal)) = 1800

----------------------------------------------------------------------------
(* Properties of the goal-status classification (ClsSpec) *)

C10_LowerBoundaryUnder ==
    clsStatus # "none" =>
      /\ 10 * clsTotal = 9 * clsGoal => clsStatus = "under"
      /\ 10 * clsTotal = 11 * clsGoal => clsStatus = "met"

\* C10 amended: a total exactly at 0.9 x goal is 'met' and not 'under'; a
\* total exactly at 1.1 x goal is 'met' and not 'over'.
C10_BoundariesMet ==
    clsStatus # "none" =>
      /\ 10 * clsTotal = 9 * clsGoal => clsStatus = "met"
      /\ 10 * clsTotal = 11 * clsGoal => clsStatus = "met"

C10_Witness ==
    /\ clsStatus = "met"
    /\ clsTotal = 1800 /\ clsGoal = 2000

----------------------------------------------------------------------------
(* Period summaries (checked on SumSpec) *)

\* the target the summary resolved from the current goal
ResolvedTarget ==
    CASE Val(currentGoal).goal_type = "maintenance" ->
             Val(currentGoal).maintenance_calories
      [] Val(currentGoal).goal_type = "weight_loss" ->
             Val(currentGoal).weight_loss_calories
      [] OTHER -> Val(currentGoal).weight_gain_calories

\* C11: a summary carries a goalStatus exactly when a current goal exists
\* and its resolved calorie target is not zero; with no current goal or a
\* resolved target of zero the summary has no goalStatus.
C11_StatusOnlyForNonZeroTarget ==
    summary # Null =>
        (Val(summary).goalStatus # Null
            <=> (currentGoal # Null /\ ResolvedTarget # 0))

\* the indexes of the meals inside the window of the last summary
WindowIndexes ==
    {i \in 1..Len(meals) :
        sumStart <= meals[i].analyzed_at /\ meals[i].analyzed_at <= sumEnd}

RECURSIVE SumOver(_, _)
SumOver(indexes, column) ==
    IF indexes = {} THEN 0
    ELSE LET i == CHOOSE j \in indexes : TRUE
         IN  meals[i][column] + SumOver(indexes \ {i}, column)

\* C12: the summary of a window counts exactly the meals whose analyzed_at
\* lies in the window, both bounds included, and each of its four totals is
\* the sum of that column over exactly those meals; a window without meals
\* gives four zero totals and a zero count.
C12_WindowTotals ==
    summary # Null =>
        /\ Val(summary).mealCount = Cardinality(WindowIndexes)
        /\ Val(summary).totalCalories = SumOver(WindowIndexes, "calories")
        /\ Val(summary).totalProtein = SumOver(WindowIndexes, "protein")
        /\ Val(summary).totalCarbs = SumOver(WindowIndexes, "carbs")
        /\ Val(summary).totalFat = SumOver(WindowIndexes, "fat")
        /\ WindowIndexes = {} =>
              /\ Val(summary).mealCount = 0
              /\ Val(summary).totalCalories = 0 /\ Val(summary).totalProtein = 0
              /\ Val(summary).totalCarbs = 0 /\ Val(summary).totalFat = 0

\* a meal on each bound of the window is counted
C12_Witness ==
    /\ summary # Null
    /\ Len(meals) = 2
    /\ sumStart < sumEnd
    /\ meals[1].analyzed_at = sumEnd
    /\ meals[2].analyzed_at = sumStart
    /\ meals[1].calories # meals[2].calories
    /\ Val(summary).mealCount = 2
    /\ Val(summary).totalCalories = 650

----------------------------------------------------------------------------
(* Calculator goal records (checked on Spec) *)

StoredGoals ==
    {remote[i] : i \in 1..Len(remote)} \cup {local[i] : i \in 1..Len(local)}

\* what the engine computes from the body metrics stored in a goal record
Recomputed(g) ==
    Engine(DoubleFromInt(Val(g.age)), Val(g.weight), Val(g.height), g.gender,
           activityLevels[g.activity_level], g.unit_system)

\* C13: every goal record saved from the calculator has bmr, tdee and the
\* three calorie levels equal to what the engine computes from the age,
\* weight, height, gender, activity level and unit system of the same record.
C13_GoalComputedFromItsMetrics ==
    \A g \in StoredGoals :
        g.gender # "custom" =>
            /\ g.age # Null /\ g.weight # Null /\ g.height # Null
            /\ g.bmr = Recomputed(g).bmr
            /\ g.tdee = Recomputed(g).tdee
            /\ g.maintenance_calories = Recomputed(g).maintenance
            /\ g.weight_loss_calories = Recomputed(g).weightLoss
            /\ g.weight_gain_calories = Recomputed(g).weightGain

----------------------------------------------------------------------------
(* Calorie engine (checked on EngSpec) *)

\* the text of a field is '' or the number it spells is zero, negative or
\* below one (its integer part is empty or zero)
EnteredBelowOne(text) ==
    \/ text = << >>
    \/ text[1] \in {Dot, Minus}
    \/ \A i \in 1..LeadingDigits(text) : text[i] = 0

\* C14: calculateCalories called with age, weight or height missing, zero
\* or below 1 leaves results and isCalculated as they were; the test is on
\* the values as entered, so values of at least 1 are computed in both unit
\* systems, whatever their converted values are.
C14_InvalidComputesNothing ==
    [][IF \E f \in {"age", "weight", "height"} : EnteredBelowOne(inputs[f])
       THEN results' = results /\ isCalculated' = isCalculated
       ELSE results' # Null /\ isCalculated']_vars

\* one pound is entered and computed although it is less than one kilogram
C14_Witness ==
    /\ isCalculated
    /\ inputs.unit = "imperial"
    /\ inputs.weight = <<1>>
    /\ results = Some(ComputeResults(inputs))

\* C15: maintenance is round(tdee), and the weight-loss and weight-gain
\* levels round(tdee - 500) and round(tdee + 500) equal round(tdee) - 500
\* and round(tdee) + 500, for every validated input and every multiplier.
C15_OffsetsAroundMaintenance ==
    isCalculated =>
        /\ Val(results).maintenance = Val(results).tdee
        /\ Val(results).weightLoss = Val(results).maintenance - 500
        /\ Val(results).weightGain = Val(results).maintenance + 500

\* C16: the weight-gain level exceeds the weight-loss level by 1000 in
\* every computed result.
C16_GainMinusLoss ==
    isCalculated => Val(results).weightGain - Val(results).weightLoss = 1000

\* the arguments calculateCalories passes to calculateBMR for the form
ageArg    == DoubleFromInt(Val(ParseInt(inputs.age)))
weightArg == weightKg(Val(ParseFloat(inputs.weight)), inputs.unit)
heightArg == heightCm(Val(ParseFloat(inputs.height)), inputs.unit)

ExampleInputs ==
    [age |-> <<2, 5>>, weight |-> <<7, 0>>, height |-> <<1, 7, 5>>,
     gender |-> "male", activityLevel |-> "1.55", unit |-> "metric"]

\* C17 as stated: age 25, 70 kg, 175 cm, male, activity 1.55 give bmr 1725,
\* tdee 2674, maintenance 2674, weightLoss 2174 and weightGain 3174.
C17_ExampleAsStated ==
    (isCalculated /\ inputs = ExampleInputs) =>
        results = Some([bmr |-> 1725, tdee |-> 2674, maintenance |-> 2674,
                        weightLoss |-> 2174, weightGain |-> 3174])

\* C17: age 25, 70 kg, 175 cm, male, activity 1.55 give bmr 1674 (the
\* rounding of 1673.75), tdee 2594, maintenance 2594, weightLoss 2094 and
\* weightGain 3094.
C17_Example ==
    (isCalculated /\ inputs = ExampleInputs) =>
        results = Some([bmr |-> 1674, tdee |-> 2594, maintenance |-> 2594,
                        weightLoss |-> 2094, weightGain |-> 3094])

C17_Witness == isCalculated /\ inputs = ExampleInputs /\ results # Null

\* |a - b| <= 2^(-bits), computed exactly
Within(a, b, bits) ==
    DoubleCmp([ExactAdd(a, DoubleNeg(b)) EXCEPT !.neg = FALSE],
              [neg |-> FALSE, man |-> <<1>>, exp |-> -bits]) <= 0

\* 10 * weight + 6.25 * height - 5 * age + 5 (male) or - 161 (female) as a
\* real number, without any rounding
ExactBMR(age, weight, height, gender) ==
    ExactAdd(ExactAdd(ExactAdd(ExactMul(DoubleFromInt(10), weight),
                               ExactMul([neg |-> FALSE, man |-> <<25>>,
                                         exp |-> -2], height)),
                      ExactMul(DoubleFromInt(-5), age)),
             DoubleFromInt(IF gender = "male" THEN 5 ELSE -161))

\* weight and height are entered as whole numbers of kilograms, centimetres
WholeMetric ==
    /\ inputs.unit = "metric"
    /\ \A i \in 1..Len(inputs.weight) : inputs.weight[i] # Dot
    /\ \A i \in 1..Len(inputs.height) : inputs.height[i] # Dot

\* C18: calculateBMR returns 10 * weight + 6.25 * height - 5 * age + 5 for
\* male and - 161 for female: the real value of the formula for whole
\* metric inputs and its value in double arithmetic (within 2^-40 of the
\* real value) otherwise; the result is not rounded to a whole number, and
\* the unrounded value is what is multiplied into tdee.
C18_MifflinStJeor ==
    isCalculated =>
        LET d == calculateBMR(ageArg, weightArg, heightArg, inputs.gender)
            e == ExactBMR(ageArg, weightArg, heightArg, inputs.gender)
        IN  /\ Within(d, e, 40)
            /\ WholeMetric => DoubleCmp(d, e) = 0
            /\ Val(results).bmr = MathRound(d)
            /\ Val(results).tdee =
                  MathRound(DoubleMul(d, activityLevels[inputs.activityLevel]))

\* the example form: the BMR is 1673.75 = 6695 / 4, not a whole number
C18_Witness ==
    /\ isCalculated
    /\ inputs = ExampleInputs
    /\ DoubleCmp(calculateBMR(ageArg, weightArg, heightArg, inputs.gender),
                 [neg |-> FALSE, man |-> <<6695>>, exp |-> -2]) = 0

\* the valid ages, weights and heights of the forms, as calculateBMR gets
\* them in the unit system of the current form
AgeArgs == {DoubleFromInt(Val(ParseInt(t))) :
               t \in {x \in EngAges : ~EnteredBelowOne(x)}}
WeightArgs == {weightKg(Val(ParseFloat(t)), inputs.unit) :
                  t \in {x \in EngWeights : ~EnteredBelowOne(x)}}
HeightArgs == {heightCm(Val(ParseFloat(t)), inputs.unit) :
                  t \in {x \in EngHeights : ~EnteredBelowOne(x)}}

\* calculateBMR at the current form rises with a larger weight, rises with
\* a larger height and falls with a larger age
Monotone ==
    LET bmr == calculateBMR(ageArg, weightArg, heightArg, inputs.gender)
    IN  /\ \A w \in WeightArgs :
              DoubleCmp(w, weightArg) > 0 =>
                DoubleCmp(calculateBMR(ageArg, w, heightArg, inputs.gender),
                          bmr) > 0
        /\ \A h \in HeightArgs :
              DoubleCmp(h, heightArg) > 0 =>
                DoubleCmp(calculateBMR(ageArg, weightArg, h, inputs.gender),
                          bmr) > 0
        /\ \A a \in AgeArgs :
              DoubleCmp(a, ageArg) > 0 =>
                DoubleCmp(calculateBMR(a, weightArg, heightArg, inputs.gender),
                          bmr) < 0

\* male result minus female result minus 166, as a real number
OffsetError ==
    ExactAdd(ExactAdd(calculateBMR(ageArg, weightArg, heightArg, "male"),
                      DoubleNeg(calculateBMR(ageArg, weightArg, heightArg,
                                             "female"))),
             DoubleFromInt(-166))

C20_UnitConversion ==
    isCalculated =>
        LET weight == Val(ParseFloat(inputs.weight))
            height == Val(ParseFloat(inputs.height))
        IN  /\ inputs.unit = "metric" =>
                  Val(results).bmr =
                      MathRound(calculateBMR(ageArg, weight, height,
                                             inputs.gender))
            /\ inputs.unit = "imperial" =>
                  /\ Within(ExactMul(weightArg, DoubleFromInt(1000000)),
                            ExactMul(weight, DoubleFromInt(453592)), 20)
                  /\ Within(ExactMul(heightArg, DoubleFromInt(100)),
                            ExactMul(height, DoubleFromInt(254)), 30)
                  /\ Val(results).bmr =
                      MathRound(calculateBMR(ageArg, weightArg, heightArg,
                                             inputs.gender))

\* 154 lb and 69 in: 69.853168 kg (between 69.853 and 69.854) and 175.26 cm
C20_Witness ==
    /\ isCalculated
    /\ inputs.unit = "imperial"
    /\ inputs.weight = <<1, 5, 4>> /\ inputs.height = <<6, 9>>
    /\ DoubleCmp(weightArg, DoubleFromDecimal(69853, 3)) > 0
    /\ DoubleCmp(weightArg, DoubleFromDecimal(69854, 3)) < 0
    /\ DoubleCmp(heightArg, DoubleFromDecimal(17526, 2)) = 0

----------------------------------------------------------------------------
(* C21: macro progress of the summary card *)

\* round(100 * actual / target) in exact arithmetic (target # 0)
ExactPercent(actual, target) ==
    IF target > 0 THEN (200 * actual + target) \div (2 * target)
    ELSE (-200 * actual - target) \div (-2 * target)

RenderedRows ==
    IF bars = Null \/ Val(bars) = Null THEN {}
    ELSE {m \in DOMAIN MacroRows : Val(Val(bars))[m] # Null}

\* C21: a macro row is rendered only for a target that is a positive
\* number; its label is round(100 * actual / target) without an upper
\* clamp, and the width of its bar is that rounded percentage clamped to at
\* most 100.
C21_PercentOf ==
    \A m \in RenderedRows :
      LET row    == Val(Val(Val(bars))[m])
          actual == Val(summary)[MacroRows[m].total]
          target == Val(currentGoal)[MacroRows[m].goal]
          pct    == ExactPercent(actual, Val(target))
      IN  /\ target # Null /\ Val(target) > 0
          /\ row.label = pct
          /\ DoubleCmp(row.width,
                       DoubleFromInt(IF pct > 100 THEN 100 ELSE pct)) = 0

----------------------------------------------------------------------------
(* C22: frame of the macro-target save *)

MacroFields == {"protein_goal", "carbs_goal", "fat_goal"}

\* a step in which Save Goals receives the response of its update
MacroSaveResponds ==
    /\ histReq # Null
    /\ Val(histReq).op = "macros"
    /\ histReq' = Null

\* rows with the three macro targets of the goal on screen written into the
\* record that has its id, and nothing else changed
MacrosWritten(rows, goal) ==
    [i \in 1..Len(rows) |->
       IF rows[i].id = goal.id
       THEN [rows[i] EXCEPT !.protein_goal = goal.protein_goal,
                            !.carbs_goal = goal.carbs_goal,
                            !.fat_goal = goal.fat_goal]
       ELSE rows[i]]

\* every record of rows that is still in rows2 has kept its macro targets
MacrosKept(rows, rows2) ==
    \A i \in 1..Len(rows) : \A j \in 1..Len(rows2) :
      rows[i].id = rows2[j].id =>
        \A f \in MacroFields : rows[i][f] = rows2[j][f]

\* C22: Save Goals writes the three macro targets of the goal on screen to
\* the record with its id in the store that takes the write and changes no
\* other field and no other record of either store; no other step (typing
\* in or clearing a macro field, or any other handler) changes a stored
\* macro target.
C22_MacroFrame ==
    [][/\ MacroSaveResponds =>
            LET goal == Val(Val(histReq).goal)
            IN  /\ event'.db = "ok" =>
                     remote' = MacrosWritten(remote, goal) /\ local' = local
                /\ (event'.db = "error" /\ event'.ls = "ok") =>
                     local' = MacrosWritten(local, goal) /\ remote' = remote
                /\ event'.ls = "throw" => UNCHANGED storeVars
       /\ ~MacroSaveResponds =>
            MacrosKept(remote, remote') /\ MacrosKept(local, local')]_vars

----------------------------------------------------------------------------
(* C24: an update that was reported successful is seen by the next load *)

UpdatedToasts == {"Goal Updated!", "Goals Updated!"}

\* g is the goal of the awaited update and carries the values it wrote
CarriesUpdate(g) ==
    /\ g.id = Val(Val(histReq).goal).id
    /\ IF Val(histReq).op = "edit"
       THEN /\ g.weight_loss_calories = Val(Val(histReq).value)
            /\ g.weight_gain_calories = Val(Val(histReq).value)
            /\ g.goal_type = "custom"
       ELSE \A f \in MacroFields : g[f] = Val(Val(histReq).goal)[f]

\* C24: when a calorie edit or a macro save is reported successful, a
\* fetchCalorieGoals on the stores it leaves behind yields a current goal
\* that carries the updated values, whether the select of that load
\* succeeds or fails over to the local list.
C24_ReloadCarriesUpdate ==
    [][(UpdateResponds /\ toast' \in UpdatedToasts) =>
         \A dbOk \in BOOLEAN :
           LET g == fetchedGoals(remote', local', dbOk, TRUE).currentGoal
           IN  g # Null /\ CarriesUpdate(Val(g))]_vars

----------------------------------------------------------------------------
(* C25: a saved goal is the current goal of the next load *)

\* the goals of the user: the records, in either store, of the saves that
\* were reported successful
UserGoals ==
    {g \in {remote[i] : i \in 1..Len(remote)} \cup
           {local[i] : i \in 1..Len(local)} : g.id \in reported}

\* g is valid and was created after every other valid goal of the user
MostRecentValid(g) ==
    /\ IsValidGoal(g)
    /\ \A h \in UserGoals :
         (h.id # g.id /\ IsValidGoal(h)) => h.created_at < g.created_at

\* C25: after a load of the history view whose select succeeded or failed
\* over to the local list, the current goal is the goal, among those whose
\* save was reported successful, that is the most recently created valid
\* one, whichever store its save wrote.
C25_SavedGoalSelected ==
    (/\ page = "history"
     /\ event.op = "fetchCalorieGoals"
     /\ event.ls # "throw")
    => \A g \in UserGoals :
         MostRecentValid(g) => CurrentGoalId = Some(g.id)

----------------------------------------------------------------------------
(* C28: the 'Saved' marker of the calculator page *)

\* the stored goals of type t that carry the results r
PersistedWith(t, r) ==
    {g \in {remote[i] : i \in 1..Len(remote)} \cup
           {local[i] : i \in 1..Len(local)} :
        /\ g.goal_type = t
        /\ g.bmr = r.bmr
        /\ g.tdee = r.tdee
        /\ g.maintenance_calories = r.maintenance
        /\ g.weight_loss_calories = r.weightLoss
        /\ g.weight_gain_calories = r.weightGain}

\* C28: on the calculator page, whenever results are displayed and
\* savedGoal is a goal type t, one of the two stores holds a goal of type t
\* that carries the displayed results.
C28_SavedMarksDisplayedResults ==
    (page = "calculator" /\ results # Null /\ savedGoal # Null)
    => PersistedWith(Val(savedGoal), Val(results)) # {}

----------------------------------------------------------------------------
(* C26: the goal writes and the CHECK constraints of calorie_goals *)

\* the CHECK constraints of the table on a row or on the columns of an
\* update (a column that the write does not set is not checked)
CheckConstraints(columns) ==
    /\ "gender" \in DOMAIN columns => columns.gender \in {"male", "female"}
    /\ "unit_system" \in DOMAIN columns =>
         columns.unit_system \in {"metric", "imperial"}
    /\ "goal_type" \in DOMAIN columns =>
         columns.goal_type \in {"maintenance", "weight_loss", "weight_gain"}

\* the columns of the write that the page is awaiting, Null when it awaits
\* none: the row of an insert, the columns set by the calorie-edit update
AwaitedWrite ==
    IF calcReq # Null THEN calcReq
    ELSE IF histReq = Null THEN Null
    ELSE IF Val(histReq).op = "custom" THEN Val(histReq).goal
    ELSE IF Val(histReq).op = "edit"
    THEN LET g == CalorieEdit(Val(Val(histReq).goal),
                              Val(Val(histReq).value))
         IN  Some([weight_loss_calories |-> g.weight_loss_calories,
                   weight_gain_calories |-> g.weight_gain_calories,
                   goal_type |-> g.goal_type])
    ELSE Null

\* C26: every goal write sent to the remote table (the insert of the
\* calculator save, the insert of a custom goal, the update of a calorie
\* edit) satisfies the CHECK constraints of the table on gender,
\* unit_system and goal_type.
C26_WritesSatisfyChecks ==
    AwaitedWrite # Null => CheckConstraints(Val(AwaitedWrite))

----------------------------------------------------------------------------
(* C30: the daily, monthly and yearly summaries are nested *)

SummedFields ==
    {"mealCount", "totalCalories", "totalProtein", "totalCarbs", "totalFat"}

\* C30: at every render the meal count and the four totals of the daily
\* summary are at most those of the monthly summary, which are at most
\* those of the yearly summary, and the three summaries carry the same
\* dailyGoal and the same goalType.
C30_NestedSummaries ==
    periods # Null =>
      LET p == Val(periods)
      IN  /\ \A f \in SummedFields :
               p.day[f] <= p.month[f] /\ p.month[f] <= p.year[f]
          /\ p.day.dailyGoal = p.month.dailyGoal
          /\ p.month.dailyGoal = p.year.dailyGoal
          /\ p.day.goalType = p.month.goalType
          /\ p.month.goalType = p.year.goalType

C30_Witness ==
    /\ periods # Null
    /\ Val(periods).day.mealCount = 1
    /\ Val(periods).month.mealCount = 1
    /\ Val(periods).year.mealCount = 2
    /\ Val(periods).year.dailyGoal # Null
    /\ now = 5

----------------------------------------------------------------------------
(* C23: validation of the answer of the analysis webhook *)

\* the answer is an HTTP success whose payload has status 'success', a
\* total with numeric calories, protein, carbs and fat, and a food array
WellFormed(answer) ==
    /\ answer.http = "ok"
    /\ Val(answer.data).output # Null
    /\ LET output == Val(Val(answer.data).output)
       IN  /\ output.status = "success"
           /\ output.total # Null
           /\ \A f \in TotalFields : Val(output.total)[f].type = "number"
           /\ output.food.isArray

\* C23: when handleImageSelect has completed, nutritionData is non-null
\* only if the answer of the webhook was well formed; for every other
\* answer nutritionData is null and 'Analysis Failed' is shown.
C23_OnlyWellFormedAnswers ==
    event.op = "handleImageSelect" =>
      /\ analyzer.nutritionData # Null => WellFormed(Val(event.value))
      /\ ~WellFormed(Val(event.value)) =>
           /\ analyzer.nutritionData = Null
           /\ toast = "Analysis Failed"

C23_Witness ==
    /\ event.op = "handleImageSelect"
    /\ WellFormed(Val(event.value))
    /\ analyzer.nutritionData # Null
    /\ Val(analyzer.nutritionData).calories = 310
    /\ toast = "Analysis Complete!"
    /\ ~analyzer.isAnalyzing


\* the rows of meal_analyses inserted for the analysis the page holds
HeldRows ==
    {i \in 1..Len(mealStore.rows) :
        /\ analyzer.selectedImage # Null
        /\ analyzer.nutritionData # Null
        /\ mealStore.rows[i] =
               [image_url |-> Val(analyzer.selectedImage)]
               @@ Val(analyzer.nutritionData)}

\* C27: on the analyzer page, whenever savedToHistory is true, the
\* analysis held in nutritionData is one whose image was uploaded and whose
\* row was inserted into meal_analyses.
C27_SavedIsTheHeldAnalysis ==
    analyzer.savedToHistory =>
        /\ analyzer.nutritionData # Null
        /\ analyzer.selectedImage # Null
        /\ Val(analyzer.selectedImage) \in mealStore.images
        /\ HeldRows # {}


\* History was opened with no session and checkUser went to /auth (the
\* other way to /auth, saveCalorieGoal, shows the sign-in toast)
CheckUserRedirected == page = "auth" /\ toast = "none"

\* C29: every busy flag raised by a handler is lowered again after the
\* awaited call is answered, with success or with failure: isAnalyzing and
\* isSaving of the analyzer page, isSaving of the calculator, isSavingEdit,
\* isSavingCustomGoal and loading of the history page; checkUser with no
\* session leaves loading false at once.
C29_BusyFlagsClear ==
    /\ analyzer.isAnalyzing ~> ~analyzer.isAnalyzing
    /\ analyzer.isSaving ~> ~analyzer.isSaving
    /\ isSaving ~> ~isSaving
    /\ isSavingEdit ~> ~isSavingEdit
    /\ isSavingCustomGoal ~> ~isSavingCustomGoal
    /\ (page = "history" /\ loading) ~> ~loading
    /\ [](CheckUserRedirected => ~loading)

\* a save to history has failed and its busy flag is down
C29_Witness ==
    /\ toast = "Save failed"
    /\ awaited.save = Null
    /\ ~analyzer.isSaving
    /\ analyzer.nutritionData # Null

====
